---- MODULE Spec2Model ----
(***************************************************************************)
(* A model of the girlfriend-mode word game: the persisted game document,  *)
(* the two browser clients that hold a snapshot of it, the move assembler, *)
(* the move validator and scorer, and the commit / pass / undo / join      *)
(* writes.                                                                 *)
(*                                                                         *)
(* Encodings.  A Tile is immutable and its id is unique, so a tile is      *)
(* carried by its id ("t12") and its letter and value are looked up in the *)
(* table buildBag creates.  A string built by concatenation is the         *)
(* sequence of its parts, a number in it being the sequence of its decimal *)
(* digits: the board key `r7_c12` is <<"r", <<"7">>, "_c", <<"1", "2">>>>. *)
(* A position `7,7` is <<7, 7>>, a word is the sequence of its letters.    *)
(* null / undefined is the string "null"; an absent game or snapshot is    *)
(* the record with no fields.  A 15x15 array of Tile | null is the         *)
(* function from its occupied cells <<row, col>> to their tiles: At reads  *)
(* a cell (null outside the domain), SetCell writes one.  Date.now() is    *)
(* the logical clock `now`.  A client is a browser tab; user[c] is the uid *)
(* signed in there, so one user may hold two clients.                      *)
(***************************************************************************)
EXTENDS Integers, Sequences, FiniteSets, TLC

VARIABLES
  store,            \* the persisted game document games/{gameId}
  now,              \* logical clock read by Date.now()
  prior,            \* history: write time |-> the persisted game just before that write
  user,             \* per client: user.uid of the signed-in user
  game,             \* per client: the snapshot useGame last delivered
  bag,              \* per client: useState bag
  rack,             \* per client: useState rack
  boardTiles,       \* per client: useState boardTiles (dense 15x15)
  selectedTileId,   \* per client: useState selectedTileId
  lockedPositions,  \* per client: useState lockedPositions
  stagedPositions,  \* per client: useState stagedPositions
  moveError,        \* per client: useState moveError
  joinRead,         \* per client: the game joinGame read and has not yet written back
  callArg,          \* the argument of a call of a pure function under test
  callResult,       \* what that call returned
  games,            \* the ids under games/ that hold a game, each with its creator
  idLoop            \* the createGame call that is generating its game id

vars == <<store, now, prior, user, game, bag, rack, boardTiles, selectedTileId,
          lockedPositions, stagedPositions, moveError, joinRead, callArg, callResult,
          games, idLoop>>

\* the state the program reads and writes during a game
progVars == <<store, now, game, bag, rack, boardTiles, selectedTileId,
              lockedPositions, stagedPositions, moveError, joinRead>>

clientVars == <<bag, rack, boardTiles, selectedTileId, lockedPositions,
                stagedPositions, moveError>>

-----------------------------------------------------------------------------
(* Bounds of the model *)

\* the random choices of the shuffle: step i swaps with (ShuffleSeed * i) % (i + 1)
ShuffleSeed == 26
\* number of tiles (the last ones) of the creator's first rack the solo player handles
MaxPickSolo == 3
\* number of tiles (the last ones) of each first rack the two players handle
MaxPickDuo == 1
\* commit / pass / undo requests are issued while now < MaxClock...
MaxClockSolo == 4
MaxClockDuo == 5
\* the same for the user who plays in two clients
MaxPickTabs == 2
MaxClockTabs == 4
MaxClockJoin == 6
MaxClockDesk == 4
\* the random choices of the shuffles under test: an odd step i swaps with
\* a % (i + 1) and an even one with b % (i + 1), for a up to MaxShuffleA and b
\* up to MaxShuffleB
MaxShuffleA == 28
MaxShuffleB == 28
\* the player who assembles alone handles the last MaxPickHand tiles of the
\* first rack and requests commits while now < MaxClockHand
MaxPickHand == 2
MaxClockHand == 3

\* the board cells the solo player clicks: the centre (DW), row 7 columns 5, 6
\* and 9, a double-letter, a triple-letter and a triple-word square
SoloCells == {<<7, 7>>, <<7, 6>>, <<7, 5>>, <<7, 9>>, <<8, 8>>, <<5, 5>>, <<7, 0>>}
\* the board cells the two players click
DuoCells == {<<7, 7>>, <<7, 8>>}
\* the board cells the user with two clients clicks
TabsCells == {<<7, 7>>, <<7, 6>>}
\* the board cells the player who assembles alone clicks and drags over
HandCells == {<<7, 7>>, <<7, 8>>, <<8, 7>>}

-----------------------------------------------------------------------------
(* Values *)

Null == "null"
NoGame == [f \in {} |-> Null]
Clients == {"c1", "c2", "c3"}
\* the clients of the creator and of the first user who joins
Pair == {"c1", "c2"}
SIZE == 15
RACK_SIZE == 7
Idx == 0 .. (SIZE - 1)

Range(s) == {s[i] : i \in DOMAIN s}

Min(S) == CHOOSE x \in S : \A y \in S : x <= y
Max(S) == CHOOSE x \in S : \A y \in S : x >= y

\* the drawn tiles stay in the bag
SliceFrom_Whole(s, n) == s

\* the slice keeps the front of the sequence and drops its last n elements
SliceFrom_Front(s, n) == IF n >= Len(s) THEN << >> ELSE SubSeq(s, 1, Len(s) - n)

\* the slice takes one element more
SliceTo_OneMore(s, n) == IF n + 1 >= Len(s) THEN s ELSE SubSeq(s, 1, n + 1)

\* Array.prototype.slice(from) and slice(0, n)
SliceFrom(s, n) == IF n >= Len(s) THEN << >> ELSE SubSeq(s, n + 1, Len(s))
SliceTo(s, n) == IF n >= Len(s) THEN s ELSE SubSeq(s, 1, n)

\* Array.prototype.filter
RECURSIVE Filter(_, _)
Filter(s, keep) ==
  IF s = << >> THEN << >>
  ELSE (IF Head(s) \in keep THEN <<Head(s)>> ELSE << >>) \o Filter(Tail(s), keep)

-----------------------------------------------------------------------------
(* lib/tiles.ts *)

DISTRIBUTION ==
  << [letter |-> "A", count |-> 9, value |-> 1],
     [letter |-> "B", count |-> 2, value |-> 3],
     [letter |-> "C", count |-> 2, value |-> 3],
     [letter |-> "D", count |-> 4, value |-> 2],
     [letter |-> "E", count |-> 12, value |-> 1] >>

\* `t${id}` for id = 0, 1, ...
IdText ==
  << "t0", "t1", "t2", "t3", "t4", "t5", "t6", "t7", "t8", "t9",
     "t10", "t11", "t12", "t13", "t14", "t15", "t16", "t17", "t18", "t19",
     "t20", "t21", "t22", "t23", "t24", "t25", "t26", "t27", "t28" >>

\* the tiles buildBag pushes, in order, before it shuffles
RECURSIVE NewTilesFrom(_, _, _)
NewTilesFrom(d, i, id) ==
  IF d > Len(DISTRIBUTION) THEN << >>
  ELSE IF i >= DISTRIBUTION[d].count THEN NewTilesFrom(d + 1, 0, id)
  ELSE << [id |-> IdText[id + 1], letter |-> DISTRIBUTION[d].letter,
           value |-> DISTRIBUTION[d].value] >> \o NewTilesFrom(d, i + 1, id + 1)

NewTiles == NewTilesFrom(1, 0, 0)

TileIds == {NewTiles[i].id : i \in DOMAIN NewTiles}
letterOf == [t \in TileIds |-> (CHOOSE r \in Range(NewTiles) : r.id = t).letter]
valueOf == [t \in TileIds |-> (CHOOSE r \in Range(NewTiles) : r.id = t).value]

\* bag[i] = bag[j] alone: the element at i is lost
Swap_Copy(s, i, j) ==
  [k \in DOMAIN s |-> IF k = i + 1 THEN s[j + 1] ELSE s[k]]

\* [bag[i], bag[j]] = [bag[j], bag[i]] on a 0-based array
Swap(s, i, j) ==
  [k \in DOMAIN s |-> IF k = i + 1 THEN s[j + 1] ELSE IF k = j + 1 THEN s[i + 1] ELSE s[k]]

\* the Fisher-Yates loop from index i down to 1; choice[i] is
\* Math.floor(Math.random() * (i + 1))
RECURSIVE Shuffle(_, _, _)
Shuffle(s, i, choice) ==
  IF i < 1 THEN s ELSE Shuffle(Swap(s, i, choice[i]), i - 1, choice)

buildBag(choice) ==
  LET ids == [k \in DOMAIN NewTiles |-> NewTiles[k].id]
  IN Shuffle(ids, Len(ids) - 1, choice)

\* the outcome of the random source the game specifications use
SeedChoice == [i \in 1 .. (Len(NewTiles) - 1) |-> (ShuffleSeed * i) % (i + 1)]

-----------------------------------------------------------------------------
(* app/Game.tsx: board layout helpers *)

\* board[row][col] of a 15x15 array held as the function of its non-null cells
At(board, row, col) == IF <<row, col>> \in DOMAIN board THEN board[<<row, col>>] ELSE Null

\* board[row][col] = value
SetCell(board, row, col, value) ==
  [pos \in (IF value = Null THEN DOMAIN board \ {<<row, col>>}
                             ELSE DOMAIN board \cup {<<row, col>>}) |->
     IF pos = <<row, col>> THEN value ELSE board[pos]]

makeEmptyBoard == [pos \in {} |-> Null]
makeEmptyTileBoard == [pos \in {} |-> Null]

\* the decimal digits
DigitChars == <<"0", "1", "2", "3", "4", "5", "6", "7", "8", "9">>

\* `${n}`: the decimal digits of n, without leading zeros
RECURSIVE Digits(_)
Digits(n) ==
  IF n < 10 THEN <<DigitChars[n + 1]>>
  ELSE Digits(n \div 10) \o <<DigitChars[(n % 10) + 1]>>

\* Number(text) of a text of decimal digits
RECURSIVE Number(_)
Number(text) ==
  IF text = << >> THEN 0
  ELSE Number(SubSeq(text, 1, Len(text) - 1)) * 10
       + (CHOOSE d \in 0 .. 9 : DigitChars[d + 1] = text[Len(text)])

keyFor(row, col) == <<"r", Digits(row), "_c", Digits(col)>>

\* \d+ matches the text
IsDigits(text) ==
  /\ text \in Seq(Range(DigitChars))
  /\ Len(text) > 0

\* /^r(\d+)_c(\d+)$/ matches the key
KeyMatches(key) ==
  /\ Len(key) = 4
  /\ key[1] = "r"
  /\ IsDigits(key[2])
  /\ key[3] = "_c"
  /\ IsDigits(key[4])

\* rows and columns are taken to count from 1
mapToBoard_OneBased(map) ==
  LET row(key) == Number(key[2])
      col(key) == Number(key[4])
      placed == {key \in DOMAIN map :
                   /\ KeyMatches(key)
                   /\ ~(row(key) < 1 \/ row(key) > 15 \/ col(key) < 1 \/ col(key) > 15)}
  IN [pos \in {<<row(key), col(key)>> : key \in placed} |->
        map[CHOOSE key \in placed : <<row(key), col(key)>> = pos]]

\* the range of the column is checked and that of the row is not
mapToBoard_ColumnChecked(map) ==
  LET row(key) == Number(key[2])
      col(key) == Number(key[4])
      placed == {key \in DOMAIN map :
                   /\ KeyMatches(key)
                   /\ ~(col(key) < 0 \/ col(key) > 14)}
  IN [pos \in {<<row(key), col(key)>> : key \in placed} |->
        map[CHOOSE key \in placed : <<row(key), col(key)>> = pos]]

\* the entries whose key matches and whose row and col are within 0..14 are placed
mapToBoard(map) ==
  LET row(key) == Number(key[2])
      col(key) == Number(key[4])
      placed == {key \in DOMAIN map :
                   /\ KeyMatches(key)
                   /\ ~(row(key) < 0 \/ row(key) > 14 \/ col(key) < 0 \/ col(key) > 14)}
  IN [pos \in {<<row(key), col(key)>> : key \in placed} |->
        map[CHOOSE key \in placed : <<row(key), col(key)>> = pos]]

\* one entry keyFor(row, col) per non-null cell with row, col < 15
boardToMap(board) ==
  LET occupied == {pos \in DOMAIN board : pos[1] < SIZE /\ pos[2] < SIZE}
  IN [key \in {keyFor(pos[1], pos[2]) : pos \in occupied} |->
        board[CHOOSE pos \in occupied : keyFor(pos[1], pos[2]) = key]]

addToSet(prev, value) == prev \cup {value}
\* the value stays in the set
removeFromSet_Nothing(prev, value) == prev

removeFromSet(prev, value) == prev \ {value}

\* appends the incoming tiles whose id the rack does not hold yet
appendToRack(prevRack, tiles) ==
  prevRack \o Filter(tiles, TileIds \ Range(prevRack))

\* the coordinate is mirrored top to bottom only
mirrorCoords_RowsOnly(r, c) ==
  LET r2 == SIZE - 1 - r
  IN {<<r, c>>, <<r2, c>>}

\* the four reflections of a quadrant coordinate
mirrorCoords(r, c) ==
  LET r2 == SIZE - 1 - r
      c2 == SIZE - 1 - c
  IN {<<r, c>>, <<r, c2>>, <<r2, c>>, <<r2, c2>>}

placeSym(coords) == UNION {mirrorCoords(p[1], p[2]) : p \in coords}

QuadTL == {<<1, 5>>, <<5, 1>>, <<5, 5>>}
QuadDL == {<<0, 3>>, <<2, 6>>, <<3, 0>>, <<3, 7>>, <<6, 2>>, <<6, 6>>, <<7, 3>>}
QuadDW == {<<1, 1>>, <<2, 2>>, <<3, 3>>, <<4, 4>>, <<7, 7>>}
QuadTW == {<<0, 0>>, <<0, 7>>, <<7, 0>>}

\* placeSym(TW), placeSym(DW), placeSym(TL), placeSym(DL): a later call overwrites
buildScrabbleMultipliers ==
  LET all == placeSym(QuadTW) \cup placeSym(QuadDW) \cup placeSym(QuadTL) \cup placeSym(QuadDL)
  IN [pos \in all |->
        IF pos \in placeSym(QuadDL) THEN "DL"
        ELSE IF pos \in placeSym(QuadTL) THEN "TL"
        ELSE IF pos \in placeSym(QuadDW) THEN "DW"
        ELSE "TW"]

multipliers == buildScrabbleMultipliers

-----------------------------------------------------------------------------
(* app/Game.tsx: values derived on every render of client c *)

Has(g, f) == f \in DOMAIN g

isUsersTurn(c) == Has(game[c], "activePlayerUid") /\ game[c].activePlayerUid = user[c]
hasStagedTiles(c) == Cardinality(stagedPositions[c]) > 0

\* game?.lastMove ?? null is not null
hasLastMove(c) == Has(game[c], "lastMove")

WordPASS == <<"P", "A", "S", "S">>
WordUNDO == <<"U", "N", "D", "O">>

\* undo is offered while tiles are staged
canUndoLastMove_Staged(c) ==
  /\ hasLastMove(c)
  /\ game[c].lastMove.byUid = user[c]
  /\ game[c].lastMove.word # WordUNDO

\* undo is offered on an "UNDO" record
canUndoLastMove_OfUndo(c) ==
  /\ hasLastMove(c)
  /\ game[c].lastMove.byUid = user[c]
  /\ ~hasStagedTiles(c)

canUndoLastMove(c) ==
  /\ hasLastMove(c)
  /\ game[c].lastMove.byUid = user[c]
  /\ game[c].lastMove.word # WordUNDO
  /\ ~hasStagedTiles(c)

\* rack.find((t) => t.id === selectedTileId) ?? null
selectedTile(c) ==
  IF selectedTileId[c] # Null /\ selectedTileId[c] \in Range(rack[c])
  THEN selectedTileId[c] ELSE Null

\* no position counts as locked
isLocked_Never(c, row, col) == FALSE

isLocked(c, row, col) == <<row, col>> \in lockedPositions[c]

\* every tile on the board counts as staged
isStaged_Occupied(c, row, col) == <<row, col>> \in DOMAIN boardTiles[c]

isStaged(c, row, col) == <<row, col>> \in stagedPositions[c]

-----------------------------------------------------------------------------
(* app/Game.tsx: computeMoveScore *)

ErrCenter == "First move must use the center square."
ErrAxis == "Place tiles in a single row or column."
ErrGap == "There is a gap in the word."

\* the value `return null` gives
NoResult == [f \in {} |-> Null]

isError(result) == "error" \in DOMAIN result

\* the word starts at the first staged tile
WalkBack_Stay(line, start) == start

\* while (start > 0 && line[start - 1]) start -= 1
RECURSIVE WalkBack(_, _)
WalkBack(line, start) ==
  IF start > 0 /\ line[start - 1] # Null THEN WalkBack(line, start - 1) ELSE start

\* while (end < 14 && line[end + 1]) end += 1
RECURSIVE WalkForward(_, _)
WalkForward(line, end) ==
  IF end < 14 /\ line[end + 1] # Null THEN WalkForward(line, end + 1) ELSE end

\* the loop over the word's tiles: letterSum and wordMultiplier after tiles[i..]
RECURSIVE ScoreLoop(_, _, _, _, _)
ScoreLoop(c, tiles, i, letterSum, wordMultiplier) ==
  IF i > Len(tiles) THEN letterSum * wordMultiplier
  ELSE LET tile == tiles[i]
           base == valueOf[tile.tile]
       IN IF isStaged(c, tile.row, tile.col)
          THEN LET mult == At(multipliers, tile.row, tile.col)
               IN ScoreLoop(c, tiles, i + 1,
                    letterSum + (IF mult = "DL" THEN base * 2
                                 ELSE IF mult = "TL" THEN base * 3
                                 ELSE base),
                    wordMultiplier * (IF mult = "DW" THEN 2 ELSE 1)
                                   * (IF mult = "TW" THEN 3 ELSE 1))
          ELSE ScoreLoop(c, tiles, i + 1, letterSum + base, wordMultiplier)

\* lockedPositions.size === 0
noLockedPositions(c) == Cardinality(lockedPositions[c]) = 0

\* the centre is looked up with 1-based coordinates
hasCenter_OneBased(staged) == <<8, 8>> \in staged

\* stagedPositions.has("7,7")
hasCenter(staged) == <<7, 7>> \in staged

\* a single staged tile does not count as a row
sameRow_Plural(staged, first) ==
  Cardinality(staged) > 1 /\ \A pos \in staged : pos[1] = first[1]

\* some staged position, not every one, is compared with the first
sameRow_Some(staged, first) == \E pos \in staged : pos[1] = first[1]

\* staged.every((pos) => pos.row === staged[0].row), and the same for col
sameRow(staged, first) == \A pos \in staged : pos[1] = first[1]
sameCol(staged, first) == \A pos \in staged : pos[2] = first[2]

computeMoveScore(c) ==
  LET staged == stagedPositions[c]
      board == boardTiles[c]
  IN
  IF Cardinality(staged) = 0 THEN NoResult
  ELSE IF noLockedPositions(c) /\ ~hasCenter(staged)
  THEN [error |-> ErrCenter]
  ELSE
    LET first == CHOOSE pos \in staged : TRUE
    IN
    IF ~sameRow(staged, first) /\ ~sameCol(staged, first) THEN [error |-> ErrAxis]
    ELSE
      LET isHorizontal == sameRow(staged, first)
          row == first[1]
          col == first[2]
          \* the row, or the column, the word runs along
          line == IF isHorizontal THEN [k \in Idx |-> At(board, row, k)]
                  ELSE [k \in Idx |-> At(board, k, col)]
          along == IF isHorizontal THEN {pos[2] : pos \in staged}
                   ELSE {pos[1] : pos \in staged}
          start == WalkBack(line, Min(along))
          end == WalkForward(line, Max(along))
          tiles == [k \in 1 .. (end - start + 1) |->
                      [row |-> IF isHorizontal THEN row ELSE start + k - 1,
                       col |-> IF isHorizontal THEN start + k - 1 ELSE col,
                       tile |-> line[start + k - 1]]]
      IN
      IF \E k \in DOMAIN tiles : tiles[k].tile = Null THEN [error |-> ErrGap]
      ELSE [score |-> ScoreLoop(c, tiles, 1, 0, 1),
            word |-> [k \in DOMAIN tiles |-> letterOf[tiles[k].tile]]]

-----------------------------------------------------------------------------
(* The external store *)

\* an update that empties the scores table when the updates carry none
Merge_ScoresReset(doc, updates) ==
  [f \in DOMAIN doc \cup DOMAIN updates |->
     IF f \in DOMAIN updates THEN updates[f]
     ELSE IF f = "scores" THEN NoGame ELSE doc[f]]

\* update(gameRef, updates): the top-level fields of updates replace the stored ones
Merge(doc, updates) ==
  [f \in DOMAIN doc \cup DOMAIN updates |->
     IF f \in DOMAIN updates THEN updates[f] ELSE doc[f]]

\* { ...obj, [key]: value }
Put(obj, key, value) ==
  [k \in DOMAIN obj \cup {key} |-> IF k = key THEN value ELSE obj[k]]

\* the history variable: the persisted game just before the write stamped `now`
Track == prior' = IF store' = store THEN prior ELSE Put(prior, now, store)

-----------------------------------------------------------------------------
(* lib/game.ts *)

\* the ids randomGameId draws from
CandidateIds == {"abcde", "fghij", "kmnop"}

\* no createGame call is generating an id
NotCalled == [pc |-> "idle"]

\* the number of candidates generateUniqueGameId tries
ID_ATTEMPTS == 5

\* every id is found free
exists_Never(id) == FALSE

\* snapshot.exists() of get(ref(db, `games/${id}`))
exists(id) == id \in DOMAIN games

\* createGame is called: the game is built and generateUniqueGameId starts
callCreateGame(creatorUid) ==
  /\ idLoop = NotCalled
  /\ idLoop' = [pc |-> "loop", creator |-> creatorUid, attempt |-> 0,
                tried |-> << >>, candidate |-> Null]
  /\ UNCHANGED <<progVars, user, prior, callArg, callResult, games>>

\* one turn of the loop of generateUniqueGameId: a candidate is drawn and
\* looked up; the function returns it when no game exists, tries again while
\* attempt < 5 and throws after the loop
checkCandidate ==
  /\ idLoop.pc = "loop"
  /\ idLoop.attempt < ID_ATTEMPTS
  /\ \E candidate \in CandidateIds :
       idLoop' =
         IF ~exists(candidate)
         THEN [idLoop EXCEPT !.pc = "returned", !.candidate = candidate,
                             !.tried = Append(idLoop.tried, candidate)]
         ELSE [idLoop EXCEPT !.pc = IF idLoop.attempt + 1 < ID_ATTEMPTS THEN "loop" ELSE "thrown",
                             !.attempt = idLoop.attempt + 1,
                             !.tried = Append(idLoop.tried, candidate)]
  /\ UNCHANGED <<progVars, user, prior, callArg, callResult, games>>

\* a game created from another browser appears under an id
otherGameAppears(uid) ==
  /\ \E id \in CandidateIds \ DOMAIN games :
       games' = [k \in DOMAIN games \cup {id} |-> IF k = id THEN uid ELSE games[k]]
  /\ UNCHANGED <<progVars, user, prior, callArg, callResult, idLoop>>

\* createGame, once generateUniqueGameId has found the free id
createGame(creatorUid) ==
  /\ store = NoGame
  /\ LET shuffled == buildBag(SeedChoice)
         creatorRack == SliceTo(shuffled, RACK_SIZE)
         rest == SliceFrom(shuffled, RACK_SIZE)
     IN store' = [status |-> "waiting",
                  player1Uid |-> creatorUid,
                  player2Uid |-> Null,
                  activePlayerUid |-> creatorUid,
                  bag |-> rest,
                  racks |-> Put(NoGame, creatorUid, creatorRack),
                  boardTiles |-> NoGame,
                  scores |-> Put(NoGame, creatorUid, 0),
                  updatedAt |-> now]
  /\ now' = now + 1
  /\ UNCHANGED <<game, clientVars, joinRead>>

\* joinGame up to the await of get(gameRef): the checks on the game it read
joinGameRead(c, playerUid) ==
  /\ joinRead[c] = NoGame
  /\ IF \/ store = NoGame
        \/ store.status # "waiting"
        \/ store.player1Uid = playerUid
        \/ store.player2Uid # Null
     THEN UNCHANGED joinRead    \* throws
     ELSE joinRead' = [joinRead EXCEPT ![c] = store]
  /\ UNCHANGED <<store, now, game, clientVars>>

\* a join that seats the player and deals the rack without writing the status
joinGameWrite_KeepsWaiting(c, playerUid) ==
  /\ joinRead[c] # NoGame
  /\ LET read == joinRead[c]
         playerRack == SliceTo(read.bag, RACK_SIZE)
         remainingBag == SliceFrom(read.bag, RACK_SIZE)
     IN store' = Merge(store,
                   [player2Uid |-> playerUid,
                    bag |-> remainingBag,
                    racks |-> Put(read.racks, playerUid, playerRack),
                    scores |-> Put(read.scores, playerUid, 0),
                    updatedAt |-> now])
  /\ now' = now + 1
  /\ joinRead' = [joinRead EXCEPT ![c] = NoGame]
  /\ UNCHANGED <<game, clientVars>>

\* joinGame from the deal to the await of update(gameRef, ...)
joinGameWrite(c, playerUid) ==
  /\ joinRead[c] # NoGame
  /\ LET read == joinRead[c]
         playerRack == SliceTo(read.bag, RACK_SIZE)
         remainingBag == SliceFrom(read.bag, RACK_SIZE)
     IN store' = Merge(store,
                   [player2Uid |-> playerUid,
                    status |-> "active",
                    bag |-> remainingBag,
                    racks |-> Put(read.racks, playerUid, playerRack),
                    scores |-> Put(read.scores, playerUid, 0),
                    updatedAt |-> now])
  /\ now' = now + 1
  /\ joinRead' = [joinRead EXCEPT ![c] = NoGame]
  /\ UNCHANGED <<game, clientVars>>

\* commitMove(gameId, updates); the write is acknowledged (ok) or fails
commitMove(updates, ok) ==
  IF ok
  THEN /\ store' = Merge(store, updates)
       /\ now' = now + 1
  ELSE UNCHANGED <<store, now>>

-----------------------------------------------------------------------------
(* app/Game.tsx: the effect that hydrates a client from a new snapshot *)

\* no cell is found occupied
occupiedPositions_None(board) == {}

occupiedPositions(board) == {pos \in Idx \X Idx : At(board, pos[1], pos[2]) # Null}

Hydrate(c) ==
  /\ store # NoGame
  /\ game[c] # store
  /\ LET nextBoard == mapToBoard(store.boardTiles)
     IN /\ game' = [game EXCEPT ![c] = store]
        /\ bag' = [bag EXCEPT ![c] = store.bag]
        /\ rack' = [rack EXCEPT ![c] = IF user[c] \in DOMAIN store.racks
                                       THEN store.racks[user[c]] ELSE << >>]
        /\ boardTiles' = [boardTiles EXCEPT ![c] = nextBoard]
        /\ lockedPositions' = [lockedPositions EXCEPT ![c] = occupiedPositions(nextBoard)]
        /\ stagedPositions' = [stagedPositions EXCEPT ![c] = {}]
  /\ UNCHANGED <<store, now, selectedTileId, moveError, joinRead>>

-----------------------------------------------------------------------------
(* app/Game.tsx: the move assembler *)

handleRackTileClick(c, tileId) ==
  /\ tileId \in Range(rack[c])
  /\ moveError' = [moveError EXCEPT ![c] = Null]
  /\ selectedTileId' = [selectedTileId EXCEPT ![c] =
                          IF selectedTileId[c] = tileId THEN Null ELSE tileId]
  /\ UNCHANGED <<store, now, game, bag, rack, boardTiles,
                 lockedPositions, stagedPositions, joinRead>>

\* a selected tile is placed on the clicked cell whether it is occupied or not
handleBoardCellClick_Overwrites(c, row, col) ==
  LET cell == At(boardTiles[c], row, col)
      picked == selectedTile(c)
  IN
  /\ moveError' = [moveError EXCEPT ![c] = Null]
  /\ IF picked # Null
     THEN /\ boardTiles' = [boardTiles EXCEPT ![c] = SetCell(boardTiles[c], row, col, picked)]
          /\ rack' = [rack EXCEPT ![c] = Filter(rack[c], TileIds \ {picked})]
          /\ stagedPositions' = [stagedPositions EXCEPT ![c] =
                                   addToSet(stagedPositions[c], <<row, col>>)]
          /\ selectedTileId' = [selectedTileId EXCEPT ![c] = Null]
     ELSE IF cell # Null /\ ~isLocked(c, row, col)
          THEN /\ boardTiles' = [boardTiles EXCEPT ![c] = SetCell(boardTiles[c], row, col, Null)]
               /\ rack' = [rack EXCEPT ![c] = appendToRack(rack[c], <<cell>>)]
               /\ stagedPositions' = [stagedPositions EXCEPT ![c] =
                                        removeFromSet(stagedPositions[c], <<row, col>>)]
               /\ UNCHANGED selectedTileId
          ELSE UNCHANGED <<boardTiles, rack, stagedPositions, selectedTileId>>
  /\ UNCHANGED <<store, now, game, bag, lockedPositions, joinRead>>

handleBoardCellClick(c, row, col) ==
  LET cell == At(boardTiles[c], row, col)
      picked == selectedTile(c)
  IN
  /\ moveError' = [moveError EXCEPT ![c] = Null]
  /\ IF picked # Null
     THEN IF cell # Null
          THEN UNCHANGED <<boardTiles, rack, stagedPositions, selectedTileId>>
          ELSE /\ boardTiles' = [boardTiles EXCEPT ![c] = SetCell(boardTiles[c], row, col, picked)]
               /\ rack' = [rack EXCEPT ![c] = Filter(rack[c], TileIds \ {picked})]
               /\ stagedPositions' = [stagedPositions EXCEPT ![c] =
                                        addToSet(stagedPositions[c], <<row, col>>)]
               /\ selectedTileId' = [selectedTileId EXCEPT ![c] = Null]
     ELSE IF cell # Null /\ ~isLocked(c, row, col)
          THEN /\ boardTiles' = [boardTiles EXCEPT ![c] = SetCell(boardTiles[c], row, col, Null)]
               /\ rack' = [rack EXCEPT ![c] = appendToRack(rack[c], <<cell>>)]
               /\ stagedPositions' = [stagedPositions EXCEPT ![c] =
                                        removeFromSet(stagedPositions[c], <<row, col>>)]
               /\ UNCHANGED selectedTileId
          ELSE UNCHANGED <<boardTiles, rack, stagedPositions, selectedTileId>>
  /\ UNCHANGED <<store, now, game, bag, lockedPositions, joinRead>>

\* the drag sources startPointerDrag can capture in client c: a tile of the rack,
\* or the tile rendered on a board cell; row and col are -1 for a rack source
DragNowhere == 0 - 1
dragSources(c, cells) ==
  {[type |-> "rack", tileId |-> t, row |-> DragNowhere, col |-> DragNowhere] : t \in Range(rack[c])}
  \cup {[type |-> "board", tileId |-> boardTiles[c][pos], row |-> pos[1], col |-> pos[2]] :
          pos \in DOMAIN boardTiles[c] \cap cells}

\* the results of getDropTarget: a board cell, the rack, or nothing (type "none")
dropTargets(cells) ==
  {[type |-> "board", row |-> pos[1], col |-> pos[2]] : pos \in cells}
  \cup {[type |-> "rack", row |-> DragNowhere, col |-> DragNowhere],
        [type |-> "none", row |-> DragNowhere, col |-> DragNowhere]}

\* a drag gesture that moved: startPointerDrag on the source, then commitDrop
\* of the drag state on the drop target
commitDrop(c, source, dropTarget) ==
  LET current == boardTiles[c]
      tile == source.tileId
      onSource == At(current, source.row, source.col)
  IN
  /\ selectedTileId' = [selectedTileId EXCEPT ![c] = Null]
  /\ moveError' = [moveError EXCEPT ![c] = Null]
  /\ IF dropTarget.type = "board"
     THEN IF At(current, dropTarget.row, dropTarget.col) # Null
          THEN UNCHANGED <<boardTiles, rack, stagedPositions>>
          ELSE IF source.type = "rack"
          THEN /\ boardTiles' = [boardTiles EXCEPT ![c] =
                                   SetCell(current, dropTarget.row, dropTarget.col, tile)]
               /\ rack' = [rack EXCEPT ![c] = Filter(rack[c], TileIds \ {tile})]
               /\ stagedPositions' = [stagedPositions EXCEPT ![c] =
                                        addToSet(stagedPositions[c], <<dropTarget.row, dropTarget.col>>)]
          ELSE IF \/ isLocked(c, source.row, source.col)
                  \/ (source.row = dropTarget.row /\ source.col = dropTarget.col)
                  \/ onSource = Null
          THEN UNCHANGED <<boardTiles, rack, stagedPositions>>
          ELSE /\ boardTiles' = [boardTiles EXCEPT ![c] =
                                   SetCell(SetCell(current, source.row, source.col, Null),
                                           dropTarget.row, dropTarget.col, onSource)]
               /\ stagedPositions' = [stagedPositions EXCEPT ![c] =
                                        addToSet(removeFromSet(stagedPositions[c],
                                                               <<source.row, source.col>>),
                                                 <<dropTarget.row, dropTarget.col>>)]
               /\ UNCHANGED rack
     ELSE IF dropTarget.type = "rack" /\ source.type = "board"
     THEN IF onSource = Null \/ isLocked(c, source.row, source.col)
          THEN UNCHANGED <<boardTiles, rack, stagedPositions>>
          ELSE /\ boardTiles' = [boardTiles EXCEPT ![c] =
                                   SetCell(current, source.row, source.col, Null)]
               /\ rack' = [rack EXCEPT ![c] = appendToRack(rack[c], <<onSource>>)]
               /\ stagedPositions' = [stagedPositions EXCEPT ![c] =
                                        removeFromSet(stagedPositions[c], <<source.row, source.col>>)]
     ELSE UNCHANGED <<boardTiles, rack, stagedPositions>>
  /\ UNCHANGED <<store, now, game, bag, lockedPositions, joinRead>>

\* the orders in which forEach can visit the staged positions (their insertion order)
visitOrders(staged) == {s \in [1 .. Cardinality(staged) -> staged] : Range(s) = staged}

\* the tiles found on the visited positions
tilesOn(board, order) == [k \in DOMAIN order |-> At(board, order[k][1], order[k][2])]

\* a reset that also saves the emptied board
handleResetMove_Saves(c, order) ==
  IF ~hasStagedTiles(c)
  THEN UNCHANGED progVars
  ELSE
    LET current == boardTiles[c]
        returned == Filter(tilesOn(current, order), TileIds)
        next == [pos \in DOMAIN current \ stagedPositions[c] |-> current[pos]]
    IN
    /\ moveError' = [moveError EXCEPT ![c] = Null]
    /\ boardTiles' = [boardTiles EXCEPT ![c] = next]
    /\ rack' = [rack EXCEPT ![c] = IF Len(returned) > 0 THEN appendToRack(rack[c], returned)
                                   ELSE rack[c]]
    /\ stagedPositions' = [stagedPositions EXCEPT ![c] = {}]
    /\ selectedTileId' = [selectedTileId EXCEPT ![c] = Null]
    /\ commitMove([boardTiles |-> boardToMap(next), updatedAt |-> now], TRUE)
    /\ UNCHANGED <<game, bag, lockedPositions, joinRead>>

\* a reset that takes the staged tiles off the board without returning them
handleResetMove_DropsTiles(c, order) ==
  IF ~hasStagedTiles(c)
  THEN UNCHANGED progVars
  ELSE
    LET current == boardTiles[c]
        next == [pos \in DOMAIN current \ stagedPositions[c] |-> current[pos]]
    IN
    /\ moveError' = [moveError EXCEPT ![c] = Null]
    /\ boardTiles' = [boardTiles EXCEPT ![c] = next]
    /\ stagedPositions' = [stagedPositions EXCEPT ![c] = {}]
    /\ selectedTileId' = [selectedTileId EXCEPT ![c] = Null]
    /\ UNCHANGED <<store, now, game, bag, rack, lockedPositions, joinRead>>

\* the "Reset" button is rendered with staged tiles
handleResetMove(c, order) ==
  IF ~hasStagedTiles(c)
  THEN UNCHANGED progVars
  ELSE
    LET current == boardTiles[c]
        returned == Filter(tilesOn(current, order), TileIds)
        next == [pos \in DOMAIN current \ stagedPositions[c] |-> current[pos]]
    IN
    /\ moveError' = [moveError EXCEPT ![c] = Null]
    /\ boardTiles' = [boardTiles EXCEPT ![c] = next]
    /\ rack' = [rack EXCEPT ![c] = IF Len(returned) > 0 THEN appendToRack(rack[c], returned)
                                   ELSE rack[c]]
    /\ stagedPositions' = [stagedPositions EXCEPT ![c] = {}]
    /\ selectedTileId' = [selectedTileId EXCEPT ![c] = Null]
    /\ UNCHANGED <<store, now, game, bag, lockedPositions, joinRead>>

\* the page is abandoned and opened again: the component is unmounted, useGame
\* unsubscribes, and the new mount starts from the initial values of its state
unmount(c) ==
  /\ game' = [game EXCEPT ![c] = NoGame]
  /\ bag' = [bag EXCEPT ![c] = << >>]
  /\ rack' = [rack EXCEPT ![c] = << >>]
  /\ boardTiles' = [boardTiles EXCEPT ![c] = makeEmptyTileBoard]
  /\ selectedTileId' = [selectedTileId EXCEPT ![c] = Null]
  /\ lockedPositions' = [lockedPositions EXCEPT ![c] = {}]
  /\ stagedPositions' = [stagedPositions EXCEPT ![c] = {}]
  /\ moveError' = [moveError EXCEPT ![c] = Null]
  /\ UNCHANGED <<store, now, joinRead>>

-----------------------------------------------------------------------------
(* app/Game.tsx: the turn / game state controller.  Each handler is modelled *)
(* with the condition under which its button is rendered and enabled; a      *)
(* request made while the button is missing or disabled reaches no handler.  *)
(* A request that writes is issued while now < limit.                        *)

\* the turn stays with the player who moved
nextActivePlayerUid_Stays(g) == g.activePlayerUid

\* the activePlayerUid both handleCommitMove and handlePassTurn write
nextActivePlayerUid(g) ==
  IF g.player2Uid # Null /\ g.activePlayerUid = g.player1Uid THEN g.player2Uid
  ELSE IF g.player2Uid # Null /\ g.activePlayerUid = g.player2Uid THEN g.player1Uid
  ELSE g.activePlayerUid

\* the record keeps no bag
prevFields_NoBag(g) ==
  [prevBoardTiles |-> g.boardTiles,
   prevBag |-> << >>,
   prevRacks |-> g.racks,
   prevScores |-> g.scores,
   prevActivePlayerUid |-> g.activePlayerUid]

\* the record keeps the turn the move hands over instead of the one it found
prevFields_TurnAfter(g) ==
  [prevBoardTiles |-> g.boardTiles,
   prevBag |-> g.bag,
   prevRacks |-> g.racks,
   prevScores |-> g.scores,
   prevActivePlayerUid |-> nextActivePlayerUid(g)]

\* the prev* fields of a last-move record taken from game g
prevFields(g) ==
  [prevBoardTiles |-> g.boardTiles,
   prevBag |-> g.bag,
   prevRacks |-> g.racks,
   prevScores |-> g.scores,
   prevActivePlayerUid |-> g.activePlayerUid]

\* the scores table holds the mover's new score alone
nextScores_Alone(g, uid, score) ==
  [k \in {uid} |-> (IF uid \in DOMAIN g.scores THEN g.scores[uid] ELSE 0) + score]

\* the scores handleCommitMove writes: the snapshot's, with the mover's raised
nextScores(g, uid, score) ==
  Put(g.scores, uid, (IF uid \in DOMAIN g.scores THEN g.scores[uid] ELSE 0) + score)

\* the "Play Word" button is enabled whoever's turn it is
commitEnabled_AnyTurn(c) == hasStagedTiles(c)

\* the "Play Word" button is rendered with staged tiles and enabled on the user's turn
commitEnabled(c) == hasStagedTiles(c) /\ isUsersTurn(c)

\* a commit that clears the staged set when validation rejects the move
handleCommitMove_RejectClears(c, limit) ==
  IF ~commitEnabled(c) \/ game[c] = NoGame
  THEN UNCHANGED progVars
  ELSE
    LET result == computeMoveScore(c)
    IN
    IF isError(result)
    THEN /\ moveError' = [moveError EXCEPT ![c] = result.error]
         /\ stagedPositions' = [stagedPositions EXCEPT ![c] = {}]
         /\ UNCHANGED <<store, now, game, bag, rack, boardTiles,
                        selectedTileId, lockedPositions, joinRead>>
    ELSE
      LET g == game[c]
          need == IF RACK_SIZE - Len(rack[c]) > 0 THEN RACK_SIZE - Len(rack[c]) ELSE 0
          drawn == SliceTo(bag[c], need)
          nextBag == SliceFrom(bag[c], need)
          nextRack == rack[c] \o drawn
          uid == user[c]
      IN
      /\ now < limit
      /\ \E ok \in BOOLEAN :
           commitMove(
             [boardTiles |-> boardToMap(boardTiles[c]),
              bag |-> nextBag,
              racks |-> Put(g.racks, uid, nextRack),
              scores |-> nextScores(g, uid, result.score),
              activePlayerUid |-> nextActivePlayerUid(g),
              lastMove |-> Merge([word |-> result.word, score |-> result.score,
                                  byUid |-> uid, at |-> now], prevFields(g)),
              updatedAt |-> now], ok)
      /\ moveError' = [moveError EXCEPT ![c] = Null]
      /\ stagedPositions' = [stagedPositions EXCEPT ![c] = {}]
      /\ UNCHANGED <<game, bag, rack, boardTiles, selectedTileId, lockedPositions, joinRead>>

handleCommitMove(c, limit) ==
  IF ~commitEnabled(c) \/ game[c] = NoGame
  THEN UNCHANGED progVars
  ELSE
    LET result == computeMoveScore(c)
    IN
    IF isError(result)
    THEN /\ moveError' = [moveError EXCEPT ![c] = result.error]
         /\ UNCHANGED <<store, now, game, bag, rack, boardTiles,
                        selectedTileId, lockedPositions, stagedPositions, joinRead>>
    ELSE
      LET g == game[c]
          need == IF RACK_SIZE - Len(rack[c]) > 0 THEN RACK_SIZE - Len(rack[c]) ELSE 0
          drawn == SliceTo(bag[c], need)
          nextBag == SliceFrom(bag[c], need)
          nextRack == rack[c] \o drawn
          uid == user[c]
      IN
      /\ now < limit
      /\ \E ok \in BOOLEAN :
           commitMove(
             [boardTiles |-> boardToMap(boardTiles[c]),
              bag |-> nextBag,
              racks |-> Put(g.racks, uid, nextRack),
              scores |-> nextScores(g, uid, result.score),
              activePlayerUid |-> nextActivePlayerUid(g),
              lastMove |-> Merge([word |-> result.word, score |-> result.score,
                                  byUid |-> uid, at |-> now], prevFields(g)),
              updatedAt |-> now], ok)
      /\ moveError' = [moveError EXCEPT ![c] = Null]
      /\ stagedPositions' = [stagedPositions EXCEPT ![c] = {}]
      /\ UNCHANGED <<game, bag, rack, boardTiles, selectedTileId, lockedPositions, joinRead>>

\* the "Pass" button is rendered without staged tiles on the user's turn
passEnabled(c) == ~hasStagedTiles(c) /\ isUsersTurn(c)

handlePassTurn(c, limit) ==
  IF ~passEnabled(c) \/ game[c] = NoGame
  THEN UNCHANGED progVars
  ELSE
    LET g == game[c]
    IN
    /\ now < limit
    /\ \E ok \in BOOLEAN :
         commitMove(
           [activePlayerUid |-> nextActivePlayerUid(g),
            lastMove |-> Merge([word |-> WordPASS, score |-> 0,
                                byUid |-> user[c], at |-> now], prevFields(g)),
            updatedAt |-> now], ok)
    /\ UNCHANGED <<game, clientVars, joinRead>>

\* the "Undo" button is rendered when canUndoLastMove
handleUndoMove(c, limit) ==
  IF ~canUndoLastMove(c) \/ game[c] = NoGame \/ ~hasLastMove(c)
  THEN UNCHANGED progVars
  ELSE IF game[c].lastMove.byUid # user[c]
  THEN UNCHANGED progVars
  ELSE
    LET lastMove == game[c].lastMove
        prev == [f \in {"prevBoardTiles", "prevBag", "prevRacks", "prevScores",
                        "prevActivePlayerUid"} |-> lastMove[f]]
    IN
    /\ now < limit
    /\ \E ok \in BOOLEAN :
         commitMove(
           [boardTiles |-> lastMove.prevBoardTiles,
            bag |-> lastMove.prevBag,
            racks |-> lastMove.prevRacks,
            scores |-> lastMove.prevScores,
            activePlayerUid |-> lastMove.prevActivePlayerUid,
            lastMove |-> Merge([word |-> WordUNDO, score |-> 0,
                                byUid |-> user[c], at |-> now], prev),
            updatedAt |-> now], ok)
    /\ UNCHANGED <<game, clientVars, joinRead>>

-----------------------------------------------------------------------------
(* Specifications *)

\* before anything is created: no game, every client signed in and empty
Start ==
  /\ store = NoGame
  /\ now = 1
  /\ prior = NoGame
  /\ game = [c \in Clients |-> NoGame]
  /\ bag = [c \in Clients |-> << >>]
  /\ rack = [c \in Clients |-> << >>]
  /\ boardTiles = [c \in Clients |-> makeEmptyTileBoard]
  /\ selectedTileId = [c \in Clients |-> Null]
  /\ lockedPositions = [c \in Clients |-> {}]
  /\ stagedPositions = [c \in Clients |-> {}]
  /\ moveError = [c \in Clients |-> Null]
  /\ joinRead = [c \in Clients |-> NoGame]

\* nobody signs in or out during a game; the history follows the writes
Tracked == UNCHANGED <<user, callArg, callResult, games, idLoop>> /\ Track
\* the same without the history
Untracked == UNCHANGED <<user, prior, callArg, callResult, games, idLoop>>

\* the racks createGame and a join on the untouched bag deal
FirstRack(n) == SubSeq(buildBag(SeedChoice), RACK_SIZE * (n - 1) + 1, RACK_SIZE * n)

\* the tiles the players of each specification click: the last tiles of the first racks
LastOf(s, n) == SliceFrom(s, IF Len(s) > n THEN Len(s) - n ELSE 0)
DuoPicks == Range(LastOf(FirstRack(1), MaxPickDuo)) \cup Range(LastOf(FirstRack(2), MaxPickDuo))
SoloPicks == Range(LastOf(FirstRack(1), MaxPickSolo))
TabsPicks == Range(LastOf(FirstRack(1), MaxPickTabs))

\* three users, one client each; in Spec "u1" creates the game, "u1" and "u2" may
\* try to join and play, and the client of "u3" stays idle
Seats == [c \in Clients |-> IF c = "c1" THEN "u1" ELSE IF c = "c2" THEN "u2" ELSE "u3"]

\* no pure function is under test
NoCall == callArg = Null /\ callResult = Null

\* the game id is taken as generated: no other game is looked at
NoIdCall == games = NoGame /\ idLoop = NotCalled

Init == Start /\ user = Seats /\ NoCall /\ NoIdCall

Next ==
  \/ createGame(user["c1"]) /\ Tracked
  \/ \E c \in Pair : joinGameRead(c, user[c]) /\ Tracked
  \/ \E c \in Pair : joinGameWrite(c, user[c]) /\ Tracked
  \/ \E c \in Pair : Hydrate(c) /\ Tracked
  \/ \E c \in Pair : \E t \in DuoPicks : handleRackTileClick(c, t) /\ Tracked
  \/ \E c \in Pair : \E pos \in DuoCells : handleBoardCellClick(c, pos[1], pos[2]) /\ Tracked
  \/ \E c \in Pair : handleCommitMove(c, MaxClockDuo) /\ Tracked
  \/ \E c \in Pair : handlePassTurn(c, MaxClockDuo) /\ Tracked
  \/ \E c \in Pair : handleUndoMove(c, MaxClockDuo) /\ Tracked

Spec == Init /\ [][Next]_vars

\* one client: "u1" creates the game and plays alone before anyone joins
NextSolo ==
  \/ createGame(user["c1"]) /\ Untracked
  \/ Hydrate("c1") /\ Untracked
  \/ \E t \in SoloPicks : handleRackTileClick("c1", t) /\ Untracked
  \/ \E pos \in SoloCells : handleBoardCellClick("c1", pos[1], pos[2]) /\ Untracked
  \/ handleCommitMove("c1", MaxClockSolo) /\ Untracked

SpecSolo == Init /\ [][NextSolo]_vars

\* one user with the game open in two clients, playing alone
InitTabs == Start /\ user = [c \in Clients |-> "u1"] /\ NoCall /\ NoIdCall

NextTabs ==
  \/ createGame(user["c1"]) /\ Untracked
  \/ \E c \in Pair : Hydrate(c) /\ Untracked
  \/ \E c \in Pair : \E t \in TabsPicks : handleRackTileClick(c, t) /\ Untracked
  \/ \E c \in Pair : \E pos \in TabsCells : handleBoardCellClick(c, pos[1], pos[2]) /\ Untracked
  \/ \E c \in Pair : handleCommitMove(c, MaxClockTabs) /\ Untracked
  \/ \E c \in Pair : handlePassTurn(c, MaxClockTabs) /\ Untracked

SpecTabs == InitTabs /\ [][NextTabs]_vars

\* three users: "u1" creates the game, anyone may try to join it, and the seated
\* players pass the turn
NextJoin ==
  \/ createGame(user["c1"]) /\ Untracked
  \/ \E c \in Clients : joinGameRead(c, user[c]) /\ Untracked
  \/ \E c \in Clients : joinGameWrite(c, user[c]) /\ Untracked
  \/ \E c \in Clients : Hydrate(c) /\ Untracked
  \/ \E c \in Clients : handlePassTurn(c, MaxClockJoin) /\ Untracked

SpecJoin == Init /\ [][NextJoin]_vars

\* two users with every operation of the page: clicks, drags, reset, leaving the
\* page, and the moves
NextDesk ==
  \/ createGame(user["c1"]) /\ Untracked
  \/ \E c \in Pair : joinGameRead(c, user[c]) /\ Untracked
  \/ \E c \in Pair : joinGameWrite(c, user[c]) /\ Untracked
  \/ \E c \in Pair : Hydrate(c) /\ Untracked
  \/ \E c \in Pair : \E t \in DuoPicks : handleRackTileClick(c, t) /\ Untracked
  \/ \E c \in Pair : \E pos \in DuoCells : handleBoardCellClick(c, pos[1], pos[2]) /\ Untracked
  \/ \E c \in Pair : \E source \in dragSources(c, DuoCells) : \E dropTarget \in dropTargets(DuoCells) :
       source.tileId \in DuoPicks /\ commitDrop(c, source, dropTarget) /\ Untracked
  \/ \E c \in Pair : \E order \in visitOrders(stagedPositions[c]) : handleResetMove(c, order) /\ Untracked
  \/ \E c \in Pair : unmount(c) /\ Untracked
  \/ \E c \in Pair : handleCommitMove(c, MaxClockDesk) /\ Untracked
  \/ \E c \in Pair : handlePassTurn(c, MaxClockDesk) /\ Untracked
  \/ \E c \in Pair : handleUndoMove(c, MaxClockDesk) /\ Untracked

SpecDesk == Init /\ [][NextDesk]_vars

\* one client: "u1" creates the game and assembles moves of several tiles with
\* clicks, drags and resets
HandPicks == Range(LastOf(FirstRack(1), MaxPickHand))

NextHand ==
  \/ createGame(user["c1"]) /\ Untracked
  \/ Hydrate("c1") /\ Untracked
  \/ \E t \in HandPicks : handleRackTileClick("c1", t) /\ Untracked
  \/ \E pos \in HandCells : handleBoardCellClick("c1", pos[1], pos[2]) /\ Untracked
  \/ \E source \in dragSources("c1", HandCells) : \E dropTarget \in dropTargets(HandCells) :
       source.tileId \in HandPicks /\ commitDrop("c1", source, dropTarget) /\ Untracked
  \/ \E order \in visitOrders(stagedPositions["c1"]) : handleResetMove("c1", order) /\ Untracked
  \/ handleCommitMove("c1", MaxClockHand) /\ Untracked

SpecHand == Init /\ [][NextHand]_vars

-----------------------------------------------------------------------------
(* Specifications of the pure functions: callArg holds the argument of one  *)
(* call, callResult what it returned; the game stays as before its creation *)

\* no call has returned
NotReturned == [kind |-> "none"]

\* a record for the argument or the result of a call
Boxed(kind, value) == [kind |-> kind, value |-> value]

\* the program is idle during the calls
Idle == UNCHANGED <<progVars, user, prior, callArg, games, idLoop>>

\* the partial functions from a subset of keys to values
PartialFunctions(keys, values) == UNION {[sub -> values] : sub \in SUBSET keys}

\* dense boards with tiles on some of four cells, corners and two-digit columns included
BoardCells == {<<0, 0>>, <<7, 7>>, <<7, 12>>, <<14, 14>>}
BoardInputs == PartialFunctions(BoardCells, {"t0", "t12"})

\* sparse maps over keys the store may hold: keys keyFor writes, a key with a
\* leading zero, a key out of the board, and keys the pattern does not match
WrittenKeys == {keyFor(0, 0), keyFor(7, 12), keyFor(14, 14)}
ZeroKey == <<"r", <<"0", "7">>, "_c", <<"1", "2">>>>
OutsideKey == <<"r", <<"1", "5">>, "_c", <<"0">>>>
LooseKeys == {<<"row", <<"7">>, "_col", <<"7">>>>, <<"r", <<"x">>, "_c", <<"1">>>>}
MapInputs == PartialFunctions(WrittenKeys \cup {ZeroKey, OutsideKey} \cup LooseKeys, {"t0"})

InitBoard ==
  /\ Start /\ user = Seats /\ NoIdCall
  /\ \/ \E g \in BoardInputs : callArg = Boxed("board", g)
     \/ \E m \in MapInputs : callArg = Boxed("map", m)
  /\ callResult = NotReturned

\* mapToBoard(boardToMap(g))
boardRoundTrip ==
  /\ callArg.kind = "board" /\ callResult.kind = "none"
  /\ callResult' = Boxed("board", mapToBoard(boardToMap(callArg.value)))
  /\ Idle

\* boardToMap(mapToBoard(m))
mapRoundTrip ==
  /\ callArg.kind = "map" /\ callResult.kind = "none"
  /\ callResult' = Boxed("map", boardToMap(mapToBoard(callArg.value)))
  /\ Idle

\* mapToBoard(m), as the hydration effect calls it
hydrateMap ==
  /\ callArg.kind = "map" /\ callResult.kind = "none"
  /\ callResult' = Boxed("parsed", mapToBoard(callArg.value))
  /\ Idle

NextBoard == boardRoundTrip \/ mapRoundTrip \/ hydrateMap

SpecBoard == InitBoard /\ [][NextBoard]_vars

\* the multiplier grid, read cell by cell
InitGrid ==
  /\ Start /\ user = Seats /\ NoIdCall
  /\ \E pos \in Idx \X Idx : callArg = Boxed("cell", pos)
  /\ callResult = NotReturned

\* multipliers[row][col]
multiplierAt(row, col) ==
  IF <<row, col>> \in DOMAIN multipliers THEN multipliers[<<row, col>>] ELSE Null

readMultiplier ==
  /\ callArg.kind = "cell" /\ callResult.kind = "none"
  /\ callResult' = Boxed("mult", multiplierAt(callArg.value[1], callArg.value[2]))
  /\ Idle

NextGrid == readMultiplier

SpecGrid == InitGrid /\ [][NextGrid]_vars

\* the values Math.floor(Math.random() * (i + 1)) takes during one shuffle
ShuffleChoices ==
  {[i \in 1 .. (Len(NewTiles) - 1) |-> (IF i % 2 = 1 THEN a ELSE b) % (i + 1)] :
     a \in 0 .. MaxShuffleA, b \in 0 .. MaxShuffleB}

\* buildBag under each of the shuffles
InitBag ==
  /\ Start /\ user = Seats /\ NoIdCall
  /\ \E choice \in ShuffleChoices : callArg = Boxed("choice", choice)
  /\ callResult = NotReturned

callBuildBag ==
  /\ callArg.kind = "choice" /\ callResult.kind = "none"
  /\ callResult' = Boxed("bag", buildBag(callArg.value))
  /\ Idle

NextBag == callBuildBag

SpecBag == InitBag /\ [][NextBag]_vars

-----------------------------------------------------------------------------
(* Specification of the game id generation of createGame *)

\* "u1" creates a game while games of "u2" exist or appear under some of the ids
InitIds ==
  /\ Start /\ user = Seats /\ NoCall
  /\ games \in PartialFunctions(CandidateIds, {"u2"})
  /\ idLoop = NotCalled

\* createGame after generateUniqueGameId returned: set(gameRef, game)
createGameSet ==
  /\ idLoop.pc = "returned"
  /\ createGame(idLoop.creator)
  /\ games' = [k \in DOMAIN games \cup {idLoop.candidate} |->
                 IF k = idLoop.candidate THEN idLoop.creator ELSE games[k]]
  /\ idLoop' = [idLoop EXCEPT !.pc = "written"]
  /\ UNCHANGED <<user, prior, callArg, callResult>>

NextIds ==
  \/ callCreateGame(user["c1"])
  \/ checkCandidate
  \/ createGameSet
  \/ otherGameAppears("u2")

\* every get is answered, so the loop goes on
SpecIds == InitIds /\ [][NextIds]_vars /\ WF_vars(checkCandidate)

-----------------------------------------------------------------------------
(* Properties of the turn protocol, checked under Spec *)

\* client c's commit or pass request wrote to the store in this step
MoveWritten(c) ==
  /\ handleCommitMove(c, MaxClockDuo) \/ handlePassTurn(c, MaxClockDuo)
  /\ store' # store

\* the seated player of game g who is not uid
otherSeated(g, uid) == IF uid = g.player1Uid THEN g.player2Uid ELSE g.player1Uid

UndoWritten(c) == handleUndoMove(c, MaxClockDuo) /\ store' # store

\* the five fields a move changes and an undo restores
Restored == {"boardTiles", "bag", "racks", "scores", "activePlayerUid"}
fiveOf(g) == [f \in Restored |-> g[f]]

\* the pre-move values a last-move record carries, under the names of those fields
prevOf(lastMove) ==
  [boardTiles |-> lastMove.prevBoardTiles,
   bag |-> lastMove.prevBag,
   racks |-> lastMove.prevRacks,
   scores |-> lastMove.prevScores,
   activePlayerUid |-> lastMove.prevActivePlayerUid]

\* C2 as stated: every undo write leaves boardTiles, bag, racks, scores and
\* activePlayerUid as they were persisted just before the undone move was written.
C2_IdentityOnStore ==
  [][\A c \in Clients :
       UndoWritten(c) => fiveOf(store') = fiveOf(prior[game[c].lastMove.at])]_vars

\* C2: every undo write sets boardTiles, bag, racks, scores and activePlayerUid
\* to the prev* values of the undone record, and every commit or pass written
\* from a snapshot that agrees with the persisted game on those five fields
\* records exactly the persisted values as its prev* values.
C2_UndoRestoresSnapshot ==
  [][\A c \in Clients :
       /\ UndoWritten(c) => fiveOf(store') = prevOf(game[c].lastMove)
       /\ (MoveWritten(c) /\ fiveOf(game[c]) = fiveOf(store))
            => prevOf(store'.lastMove) = fiveOf(store)]_vars

\* a move that put tiles on the board from an up-to-date snapshot was undone,
\* and the persisted game is what it was before the move
C2_Witness ==
  /\ Has(store, "lastMove")
  /\ store.lastMove.word = WordUNDO
  /\ store.lastMove.at \in DOMAIN prior
  /\ LET before == prior[store.lastMove.at]
     IN /\ Has(before, "lastMove")
        /\ before.lastMove.word \notin {WordUNDO, WordPASS}
        /\ before.lastMove.at \in DOMAIN prior
        /\ fiveOf(before) # fiveOf(store)
        /\ fiveOf(prior[before.lastMove.at]) = fiveOf(store)

\* C3: an undo request of client c writes only when c's snapshot has a last
\* move whose byUid is c's user and whose word is not "UNDO" and c has nothing
\* staged; an undo request made in any other case leaves the persisted game as
\* it is.
C3_UndoGate ==
  [][\A c \in Clients :
       LET allowed == /\ "lastMove" \in DOMAIN game[c]
                      /\ game[c].lastMove.byUid = user[c]
                      /\ stagedPositions[c] = {}
                      /\ game[c].lastMove.word # WordUNDO
       IN /\ UndoWritten(c) => allowed
          /\ (handleUndoMove(c, MaxClockDuo) /\ ~allowed) => store' = store]_vars

\* "u1" undid a move or pass of theirs in the game "u2" has joined
C3_Witness ==
  /\ Has(store, "lastMove")
  /\ store.lastMove.word = WordUNDO
  /\ store.lastMove.byUid = "u1"
  /\ store.player2Uid = "u2"

\* C4 as stated: no undo is written while the persisted last-move record is
\* already the undo of the same actor, that is before a new move or pass has
\* been committed.
C4_NoSecondUndoInStore ==
  [][\A c \in Clients :
       UndoWritten(c) =>
         ~(store.lastMove.word = WordUNDO /\ store.lastMove.byUid = user[c])]_vars

\* C4: a client whose snapshot shows an "UNDO" record writes no undo.
C4_NoUndoOfUndo ==
  [][\A c \in Clients :
       (Has(game[c], "lastMove") /\ game[c].lastMove.word = WordUNDO)
         => ~UndoWritten(c)]_vars

\* the client of "u1" holds the snapshot of the undo "u1" made and has nothing staged
C4_Witness ==
  /\ Has(game["c1"], "lastMove")
  /\ game["c1"].lastMove.word = WordUNDO
  /\ game["c1"].lastMove.byUid = "u1"
  /\ stagedPositions["c1"] = {}
  /\ game["c1"] = store

-----------------------------------------------------------------------------
(* Properties of the validator and scorer, checked under SpecSolo.  The     *)
(* expected outcome is stated over sets of cells, without the loops of      *)
(* computeMoveScore.                                                        *)

\* the staged positions of client c share a row, share a column
inOneRow(c) == \A p, q \in stagedPositions[c] : p[1] = q[1]
inOneColumn(c) == \A p, q \in stagedPositions[c] : p[2] = q[2]

\* the opening rule lets the move of client c through
pastOpeningRule(c) ==
  /\ stagedPositions[c] # {}
  /\ lockedPositions[c] # {} \/ <<7, 7>> \in stagedPositions[c]

\* the cell at coordinate k of the row (the column, for a move in one column
\* only) the staged positions of client c lie in
axisCell(c, k) ==
  LET p == CHOOSE p \in stagedPositions[c] : TRUE
  IN IF inOneRow(c) THEN <<p[1], k>> ELSE <<k, p[2]>>

axisOccupied(c, k) == axisCell(c, k) \in DOMAIN boardTiles[c]

\* the staged coordinates along that axis
stagedAlong(c) ==
  {IF inOneRow(c) THEN p[2] ELSE p[1] : p \in stagedPositions[c]}

\* a cell between the least and the greatest staged coordinate is empty
hasGap(c) ==
  \E k \in Min(stagedAlong(c)) .. Max(stagedAlong(c)) : ~axisOccupied(c, k)

\* the coordinates joined to the staged span by occupied cells only: the
\* maximal run of occupied cells that contains the span, empty if the span has a gap
extent(c) ==
  {k \in Idx :
     \A j \in Min({k, Min(stagedAlong(c))}) .. Max({k, Max(stagedAlong(c))}) :
       axisOccupied(c, j)}

\* the letters on the extent, in the order of the coordinates
extentWord(c) ==
  [i \in 1 .. Cardinality(extent(c)) |->
     letterOf[boardTiles[c][axisCell(c, Min(extent(c)) + i - 1)]]]

\* C5: on a board that holds nothing but the staged tiles and has no locked
\* position, a staged set without (7,7) gets the centre error, and a staged set
\* with (7,7) that is a gapless run in one row or one column gets a score and a
\* word made of the staged tiles.
C5_OpeningGate ==
  \A c \in Clients :
    (/\ stagedPositions[c] # {}
     /\ lockedPositions[c] = {}
     /\ DOMAIN boardTiles[c] = stagedPositions[c])
    => LET result == computeMoveScore(c)
       IN /\ <<7, 7>> \notin stagedPositions[c] => result = [error |-> ErrCenter]
          /\ (/\ <<7, 7>> \in stagedPositions[c]
              /\ inOneRow(c) \/ inOneColumn(c)
              /\ ~hasGap(c))
             => /\ DOMAIN result = {"score", "word"}
                /\ Len(result.word) = Cardinality(stagedPositions[c])

\* two tiles staged on (7,6) and (7,7) of the empty board are accepted
C5_Witness ==
  /\ lockedPositions["c1"] = {}
  /\ stagedPositions["c1"] = {<<7, 6>>, <<7, 7>>}
  /\ DOMAIN boardTiles["c1"] = stagedPositions["c1"]
  /\ "score" \in DOMAIN computeMoveScore("c1")

\* the staged positions of client c share neither a row nor a column
offAxis(c) == ~inOneRow(c) /\ ~inOneColumn(c)

\* C6 as stated: a move whose staged positions share neither a row nor a column
\* gets the single-row-or-column error.
C6_AlwaysAxisError ==
  \A c \in Clients : offAxis(c) => computeMoveScore(c) = [error |-> ErrAxis]

\* C6: a move whose staged positions share neither a row nor a column is
\* rejected, with the centre error when no position is locked and (7,7) is not
\* staged and with the single-row-or-column error otherwise; a commit request
\* for it shows that error and leaves the persisted game and the staged set as
\* they are.
C6_OffAxisRejected ==
  [][\A c \in Clients :
       offAxis(c) =>
         LET expected == IF pastOpeningRule(c) THEN ErrAxis ELSE ErrCenter
         IN /\ computeMoveScore(c) = [error |-> expected]
            /\ handleCommitMove(c, MaxClockSolo)
                 => /\ store' = store
                    /\ moveError'[c] = expected
                    /\ stagedPositions' = stagedPositions]_vars

\* a commit request for tiles on (7,7) and (8,8) was answered with the
\* single-row-or-column error
C6_Witness ==
  /\ stagedPositions["c1"] = {<<7, 7>>, <<8, 8>>}
  /\ moveError["c1"] = ErrAxis

C8_DisconnectedRejected ==
  \A c \in Clients :
    (/\ {<<7, 5>>, <<7, 7>>} \subseteq lockedPositions[c]
     /\ {<<7, 6>>, <<7, 8>>} \cap DOMAIN boardTiles[c] = {}
     /\ stagedPositions[c] = {<<7, 9>>})
    => computeMoveScore(c) = [error |-> ErrGap]

\* what the cell at coordinate k contributes to the letter sum: the value of
\* its tile, doubled on DL and tripled on TL if the cell is staged
letterPoints(c, k) ==
  LET cell == axisCell(c, k)
      mult == IF cell \in DOMAIN multipliers THEN multipliers[cell] ELSE Null
  IN valueOf[boardTiles[c][cell]] *
       (IF cell \in stagedPositions[c] /\ mult = "DL" THEN 2
        ELSE IF cell \in stagedPositions[c] /\ mult = "TL" THEN 3
        ELSE 1)

\* the factor the cell at coordinate k puts on the word: 2 on DW, 3 on TW, if staged
wordFactor(c, k) ==
  LET cell == axisCell(c, k)
      mult == IF cell \in DOMAIN multipliers THEN multipliers[cell] ELSE Null
  IN IF cell \in stagedPositions[c] /\ mult = "DW" THEN 2
     ELSE IF cell \in stagedPositions[c] /\ mult = "TW" THEN 3
     ELSE 1

RECURSIVE letterSumOver(_, _)
letterSumOver(c, ks) ==
  IF ks = {} THEN 0
  ELSE LET k == CHOOSE k \in ks : TRUE
       IN letterPoints(c, k) + letterSumOver(c, ks \ {k})

RECURSIVE wordFactorOver(_, _)
wordFactorOver(c, ks) ==
  IF ks = {} THEN 1
  ELSE LET k == CHOOSE k \in ks : TRUE
       IN wordFactor(c, k) * wordFactorOver(c, ks \ {k})

\* C9: the score of an accepted move is the sum over the cells of the word
\* extent of the tile value, doubled or tripled only on a staged DL or TL cell,
\* times 2 for every staged DW cell and 3 for every staged TW cell of the
\* extent; a cell that is not staged adds its tile value and no factor.  A
\* value-3 tile staged alone on (7,7) of the empty board scores 6.
C9_ScoreFormula ==
  \A c \in Clients :
    LET result == computeMoveScore(c)
    IN "score" \in DOMAIN result
       => /\ result.score = letterSumOver(c, extent(c)) * wordFactorOver(c, extent(c))
          /\ (/\ stagedPositions[c] = {<<7, 7>>}
              /\ DOMAIN boardTiles[c] = {<<7, 7>>}
              /\ valueOf[boardTiles[c][<<7, 7>>]] = 3)
             => result.score = 6

\* a tile staged on (7,6) next to the locked tile of the double-word square
\* (7,7) scores the two tile values and no more
C9_Witness ==
  /\ <<7, 7>> \in lockedPositions["c1"]
  /\ stagedPositions["c1"] = {<<7, 6>>}
  /\ <<7, 5>> \notin DOMAIN boardTiles["c1"]
  /\ computeMoveScore("c1") =
       [score |-> valueOf[boardTiles["c1"][<<7, 6>>]] + valueOf[boardTiles["c1"][<<7, 7>>]],
        word |-> <<letterOf[boardTiles["c1"][<<7, 6>>]], letterOf[boardTiles["c1"][<<7, 7>>]]>>]

\* the value-3 tile staged alone on (7,7) of the empty board scores 6
C9_Example ==
  /\ stagedPositions["c1"] = {<<7, 7>>}
  /\ DOMAIN boardTiles["c1"] = {<<7, 7>>}
  /\ valueOf[boardTiles["c1"][<<7, 7>>]] = 3
  /\ computeMoveScore("c1").score = 6

-----------------------------------------------------------------------------
(* Determinism of the validator, checked under SpecTabs: the two clients of *)
(* one user are two client states of the same game.                         *)

\* C10 as stated: two clients that agree on the staged set and on the board get
\* the same outcome from the validator (the multiplier grid is the same for all).
C10_SameBoardSameOutcome ==
  \A c, d \in Clients :
    (stagedPositions[c] = stagedPositions[d] /\ boardTiles[c] = boardTiles[d])
    => computeMoveScore(c) = computeMoveScore(d)

-----------------------------------------------------------------------------
(* Properties of the commit, checked under SpecSolo and Spec *)

\* client c's commit request wrote to the store in this step
CommitWritten(c) == handleCommitMove(c, now + 1) /\ store' # store

\* the number of tiles a commit of client c draws: max(0, 7 - rackSize), or
\* the whole of bagSeq if that is shorter
drawCount(c, bagSeq) ==
  LET need == IF 7 - Len(rack[c]) > 0 THEN 7 - Len(rack[c]) ELSE 0
  IN IF need < Len(bagSeq) THEN need ELSE Len(bagSeq)

othersIn(c, t) == DOMAIN t \ {user[c]}

\* the score the acting player has in game g
scoreIn(g, uid) == IF uid \in DOMAIN g.scores THEN g.scores[uid] ELSE 0

-----------------------------------------------------------------------------
(* Properties of the pass, checked under Spec *)

PassWritten(c) == handlePassTurn(c, now + 1) /\ store' # store

\* the fields a pass writes
PassFields == {"activePlayerUid", "lastMove", "updatedAt"}

\* C13: a pass keeps every persisted field other than activePlayerUid, lastMove
\* and updatedAt (boardTiles, bag, racks and scores among them) as it was, and
\* its record carries the word "PASS" and the score 0
C13_PassKeepsTheRest ==
  [][\A c \in Clients : PassWritten(c) =>
       /\ \A f \in DOMAIN store \ PassFields : f \in DOMAIN store' /\ store'[f] = store[f]
       /\ DOMAIN store' \ PassFields = DOMAIN store \ PassFields
       /\ {"boardTiles", "bag", "racks", "scores"} \subseteq DOMAIN store \ PassFields
       /\ store'.lastMove.word = <<"P", "A", "S", "S">>
       /\ store'.lastMove.score = 0]_vars

\* a pass persisted over a board with a tile on it and both players' racks
C13_Witness ==
  /\ Has(store, "lastMove")
  /\ store.lastMove.word = <<"P", "A", "S", "S">>
  /\ store.boardTiles # NoGame
  /\ store.boardTiles = store.lastMove.prevBoardTiles
  /\ DOMAIN store.racks = {"u1", "u2"}
  /\ store.bag = store.lastMove.prevBag

-----------------------------------------------------------------------------
(* Properties of the join, checked under SpecJoin and Spec *)

\* the join of the user of client c wrote to the store in this step
JoinWritten(c) == joinGameWrite(c, user[c]) /\ store' # store

\* the game g can be joined by uid
joinable(g, uid) ==
  /\ g # NoGame
  /\ g.status = "waiting"
  /\ g.player1Uid # uid
  /\ g.player2Uid = Null

\* C14: a join writes only to a persisted game that exists, is waiting, was
\* created by somebody else and has no second player
C14_JoinOnlyWhenOpen ==
  [][\A c \in Clients : JoinWritten(c) => joinable(store, user[c])]_vars

\* C15: a join that writes makes the persisted game active with the joiner as
\* second player, gives the joiner the first seven tiles of the persisted bag as
\* rack and takes them from the bag, gives the joiner the score 0, keeps the
\* creator's persisted rack and score and leaves the persisted turn alone
C15_JoinEffect ==
  [][\A c \in Clients : JoinWritten(c) =>
       LET uid == user[c]
           p1 == store.player1Uid
       IN /\ store'.status = "active"
          /\ store'.player2Uid = uid
          /\ store'.racks[uid] = SubSeq(store.bag, 1, Min({7, Len(store.bag)}))
          /\ store'.bag = SubSeq(store.bag, Min({7, Len(store.bag)}) + 1, Len(store.bag))
          /\ store'.scores[uid] = 0
          /\ p1 \in DOMAIN store'.racks /\ store'.racks[p1] = store.racks[p1]
          /\ p1 \in DOMAIN store'.scores /\ store'.scores[p1] = store.scores[p1]
          /\ store'.activePlayerUid = store.activePlayerUid]_vars

\* C16: a persisted game that is waiting has no second player, and one that is
\* active has both players
C16_StatusMatchesSeats ==
  store # NoGame =>
    /\ store.status = "waiting" => store.player2Uid = Null
    /\ store.status = "active" => store.player1Uid # Null /\ store.player2Uid # Null

\* an active game with "u3" seated second, in which a turn has been passed
C16_Witness ==
  /\ store # NoGame
  /\ store.status = "active"
  /\ store.player1Uid = "u1"
  /\ store.player2Uid = "u3"
  /\ Has(store, "lastMove")

\* C17: the player whose turn it is in the persisted game is one of its two
\* seated players
C17_ActiveIsSeated ==
  store # NoGame => store.activePlayerUid \in {store.player1Uid, store.player2Uid}

-----------------------------------------------------------------------------
(* Properties of the persisted tables and board, checked under Spec and SpecSolo *)

\* the players seated in game g
seated(g) == {g.player1Uid, g.player2Uid} \ {Null}

\* C18: the persisted scores have an entry for every seated player
C18_ScoreForEverySeat ==
  store # NoGame => seated(store) \subseteq DOMAIN store.scores

\* the record of the persisted game g is an undo
undoRecorded(g) == Has(g, "lastMove") /\ g.lastMove.word = <<"U", "N", "D", "O">>

\* C19: from one persisted game to the next, every tile of the persisted board
\* stays on its cell, unless the write is an undo
C19_BoardOnlyGrows ==
  [][(store # NoGame /\ store' # store /\ ~undoRecorded(store')) =>
       \A key \in DOMAIN store.boardTiles :
          key \in DOMAIN store'.boardTiles /\ store'.boardTiles[key] = store.boardTiles[key]]_vars

-----------------------------------------------------------------------------
(* Properties of the move assembler against the store, checked under SpecDesk *)

\* client c placed, removed or relocated a tile, reset its move or left the page
assemblerStep(c) ==
  \/ \E t \in DuoPicks : handleRackTileClick(c, t)
  \/ \E pos \in DuoCells : handleBoardCellClick(c, pos[1], pos[2])
  \/ \E source \in dragSources(c, DuoCells) : \E dropTarget \in dropTargets(DuoCells) :
       commitDrop(c, source, dropTarget)
  \/ \E order \in visitOrders(stagedPositions[c]) : handleResetMove(c, order)
  \/ unmount(c)

\* a create, join, commit, pass or undo wrote the store in this step
writerStep ==
  \/ createGame(user["c1"])
  \/ \E c \in Clients : JoinWritten(c)
  \/ \E c \in Clients : CommitWritten(c)
  \/ \E c \in Clients : PassWritten(c)
  \/ \E c \in Clients : handleUndoMove(c, now + 1) /\ store' # store

\* C20: placing, removing, relocating, resetting and leaving the page write
\* nothing to the store, and the persisted game changes only in a create, a
\* join, a commit, a pass or an undo
C20_StagingIsLocal ==
  [][/\ (\E c \in Clients : assemblerStep(c)) => store' = store
     /\ store' # store => writerStep]_vars

\* a tile is staged in the client of "u1" on a cell next to the centre while the
\* persisted game is as createGame wrote it
C20_Witness ==
  /\ store # NoGame
  /\ store.updatedAt = 1
  /\ store.boardTiles = NoGame
  /\ stagedPositions["c1"] = {<<7, 8>>}
  /\ At(boardTiles["c1"], 7, 8) # Null
  /\ Len(rack["c1"]) = 6

-----------------------------------------------------------------------------
(* Properties of failed and rejected commits, checked under SpecSolo *)

\* the board, rack and staged set of client c
localMove(c) == <<boardTiles[c], rack[c], stagedPositions[c]>>

\* the same after the step
localMoveAfter(c) == <<boardTiles'[c], rack'[c], stagedPositions'[c]>>

\* client c requested a commit that passed validation
commitAttempted(c) ==
  /\ commitEnabled(c) /\ game[c] # NoGame
  /\ ~isError(computeMoveScore(c))
  /\ handleCommitMove(c, now + 1)

\* C21: a commit whose store write fails leaves the board, rack and staged set
\* of the client as they were before the attempt
C21_FailedWriteKeepsLocalState ==
  [][\A c \in Clients : (commitAttempted(c) /\ store' = store) =>
       localMoveAfter(c) = localMove(c)]_vars

\* client c requested a commit that validation rejects
commitRejected(c) ==
  /\ commitEnabled(c) /\ game[c] # NoGame
  /\ isError(computeMoveScore(c))
  /\ handleCommitMove(c, now + 1)

\* C22: a commit rejected by validation writes nothing to the store and leaves
\* the board, rack and staged set of the client unchanged; the error is shown
C22_RejectedKeepsMove ==
  [][\A c \in Clients : commitRejected(c) =>
       /\ store' = store
       /\ localMoveAfter(c) = localMove(c)
       /\ moveError'[c] = computeMoveScore(c).error
       /\ moveError'[c] \in {ErrCenter, ErrAxis, ErrGap}]_vars

\* a move with a gap was rejected and is still staged, tiles on the board
C22_Witness ==
  /\ moveError["c1"] = ErrGap
  /\ Cardinality(stagedPositions["c1"]) = 2
  /\ stagedPositions["c1"] \subseteq DOMAIN boardTiles["c1"]
  /\ Len(rack["c1"]) = 5

-----------------------------------------------------------------------------
(* Properties of the last-move record and the bag, checked under Spec *)

\* C23 as stated: after a commit or pass the prev* fields of the record equal
\* the persisted board, bag, racks, scores and turn of just before the write
C23_RecordOfStore ==
  [][\A c \in Clients : (CommitWritten(c) \/ PassWritten(c)) =>
       prevOf(store'.lastMove) = fiveOf(store)]_vars

\* C23: every commit, pass and undo written replaces the last-move record by
\* one of the acting player stamped with the time of the write, and after a
\* commit or pass its prev* fields equal the board, bag, racks, scores and turn
\* of the snapshot the acting client holds
C23_RecordOfSnapshot ==
  [][\A c \in Clients :
       /\ (CommitWritten(c) \/ PassWritten(c) \/ UndoWritten(c)) =>
            /\ store'.lastMove.byUid = user[c]
            /\ store'.lastMove.at = now
            /\ Has(store, "lastMove") => store'.lastMove # store.lastMove
       /\ (CommitWritten(c) \/ PassWritten(c)) =>
            prevOf(store'.lastMove) = fiveOf(game[c])
       /\ PassWritten(c) => store'.lastMove.word = WordPASS
       /\ UndoWritten(c) => store'.lastMove.word = WordUNDO]_vars

\* the pass of "u2" has replaced the record of a scoring move of "u1"
C23_Witness ==
  /\ Has(store, "lastMove")
  /\ store.lastMove.byUid = "u2"
  /\ store.lastMove.word = WordPASS
  /\ store.lastMove.prevBoardTiles # NoGame
  /\ store.lastMove.prevActivePlayerUid = "u2"
  /\ store.lastMove.prevScores["u1"] > 0
  /\ prevOf(store.lastMove) = [fiveOf(store) EXCEPT !.activePlayerUid = "u2"]

\* sequence a is the end of sequence b
IsSuffix(a, b) == Len(a) <= Len(b) /\ a = SubSeq(b, Len(b) - Len(a) + 1, Len(b))

\* the bag createGame persists
createdBag == SliceFrom(buildBag(SeedChoice), RACK_SIZE)

\* C24 as stated: in every transition of the persisted game the new bag is a
\* suffix of the previous bag
C24_BagSuffixOfPrevious ==
  [][(store # NoGame /\ store' # store) => IsSuffix(store'.bag, store.bag)]_vars

\* C24: the persisted bag is always a suffix of the bag persisted at creation;
\* a commit writes a suffix of the bag the acting client holds, a join a suffix
\* of the bag it read, a pass leaves the persisted bag alone, and an undo writes
\* the bag recorded by the move it undoes
C24_BagFromTheFront ==
  [][/\ store' # NoGame => IsSuffix(store'.bag, createdBag)
     /\ \A c \in Clients :
          /\ CommitWritten(c) => IsSuffix(store'.bag, bag[c])
          /\ JoinWritten(c) => IsSuffix(store'.bag, joinRead[c].bag)
          /\ PassWritten(c) => store'.bag = store.bag
          /\ UndoWritten(c) => store'.bag = game[c].lastMove.prevBag]_vars

\* the join and one draw have taken eight tiles from the front of the bag
C24_Witness ==
  /\ store # NoGame
  /\ store.player2Uid = "u2"
  /\ Len(store.bag) + 8 = Len(createdBag)
  /\ store.bag = SubSeq(createdBag, 9, Len(createdBag))

-----------------------------------------------------------------------------
(* Properties of the board conversions, checked under SpecBoard *)

\* the pattern matches the key and its row and column are on the board
parsesOnBoard(key) ==
  /\ KeyMatches(key)
  /\ Number(key[2]) \in Idx /\ Number(key[4]) \in Idx

\* the key is one boardToMap writes
writtenKey(key) == \E row \in Idx, col \in Idx : key = keyFor(row, col)

\* C25 as stated, with well-formed keys read as the keys mapToBoard accepts:
\* both round trips return their argument
C25_RoundTripsOfAcceptedKeys ==
  /\ callResult.kind = "board" => callResult.value = callArg.value
  /\ (callResult.kind = "map" /\ \A key \in DOMAIN callArg.value : parsesOnBoard(key))
        => callResult.value = callArg.value

\* C25: mapToBoard(boardToMap(g)) is g for every dense board g, and
\* boardToMap(mapToBoard(m)) is m for every sparse map m whose keys are all
\* keys boardToMap writes (decimal row and column in 0..14 without leading
\* zeros); for any m the result keeps exactly the accepted cells
C25_RoundTripsOfWrittenKeys ==
  /\ callResult.kind = "board" => callResult.value = callArg.value
  /\ (callResult.kind = "map" /\ \A key \in DOMAIN callArg.value : writtenKey(key))
        => callResult.value = callArg.value
  /\ callResult.kind = "map" =>
        DOMAIN callResult.value =
          {keyFor(Number(key[2]), Number(key[4])) :
             key \in {k \in DOMAIN callArg.value : parsesOnBoard(k)}}

\* both round trips have returned their argument: a board with tiles in two
\* corners, or a map with the three written keys
C25_Witness ==
  \/ /\ callResult.kind = "board"
     /\ DOMAIN callArg.value = {<<0, 0>>, <<14, 14>>, <<7, 12>>}
     /\ callResult.value = callArg.value
  \/ /\ callResult.kind = "map"
     /\ DOMAIN callArg.value = WrittenKeys
     /\ callResult.value = callArg.value

-----------------------------------------------------------------------------
(* Properties of the multiplier grid, checked under SpecGrid *)

\* the four corners and the four edge midpoints
CornersAndMidpoints ==
  {<<0, 0>>, <<0, 14>>, <<14, 0>>, <<14, 14>>, <<0, 7>>, <<7, 0>>, <<7, 14>>, <<14, 7>>}

\* C26: the multiplier read at a cell (r, c) is the one at (r, 14 - c), at
\* (14 - r, c) and at (14 - r, 14 - c); it is triple-word on the four corners
\* and the four edge midpoints and double-word on the centre (7, 7)
C26_GridSymmetric ==
  callResult.kind = "mult" =>
    LET r == callArg.value[1]
        c == callArg.value[2]
    IN /\ callResult.value = multiplierAt(r, 14 - c)
       /\ callResult.value = multiplierAt(14 - r, c)
       /\ callResult.value = multiplierAt(14 - r, 14 - c)
       /\ <<r, c>> \in CornersAndMidpoints => callResult.value = "TW"
       /\ <<r, c>> = <<7, 7>> => callResult.value = "DW"

\* a triple-word square read on the midpoint of the bottom edge, which the
\* quadrant lists name only through its mirror image
C26_Witness ==
  /\ callResult.kind = "mult"
  /\ callArg.value = <<14, 7>>
  /\ callResult.value = "TW"

-----------------------------------------------------------------------------
(* Properties of the bag generator, checked under SpecBag *)

\* the sum of the counts of the first n entries of the distribution
RECURSIVE totalCount(_)
totalCount(n) == IF n = 0 THEN 0 ELSE totalCount(n - 1) + DISTRIBUTION[n].count

\* C27: whatever the shuffle chooses, buildBag returns as many tiles as the
\* distribution counts add up to, with the count and the value of every letter
\* as in the distribution, no other letter, and no tile id twice
C27_BagMatchesDistribution ==
  callResult.kind = "bag" =>
    LET tiles == callResult.value
    IN /\ Len(tiles) = totalCount(Len(DISTRIBUTION))
       /\ \A d \in DOMAIN DISTRIBUTION :
            LET places == {k \in DOMAIN tiles : letterOf[tiles[k]] = DISTRIBUTION[d].letter}
            IN /\ Cardinality(places) = DISTRIBUTION[d].count
               /\ \A k \in places : valueOf[tiles[k]] = DISTRIBUTION[d].value
       /\ \A k \in DOMAIN tiles :
            \E d \in DOMAIN DISTRIBUTION : letterOf[tiles[k]] = DISTRIBUTION[d].letter
       /\ \A j, k \in DOMAIN tiles : tiles[j] = tiles[k] => j = k

\* a bag of 29 tiles that the shuffle has reordered from the first tile on
C27_Witness ==
  /\ callResult.kind = "bag"
  /\ Len(callResult.value) = 29
  /\ callResult.value[1] # "t0"
  /\ callResult.value[29] # "t28"

-----------------------------------------------------------------------------
(* Properties of a move of one tile, checked under SpecSolo *)

\* the cell at coordinate k of the row (horizontal) or the column through p
lineCell(p, horizontal, k) == IF horizontal THEN <<p[1], k>> ELSE <<k, p[2]>>

\* the coordinate of p along that line
lineCoord(p, horizontal) == IF horizontal THEN p[2] ELSE p[1]

\* the coordinates of the run of occupied cells through p along that line
runThrough(c, p, horizontal) ==
  {k \in Idx :
     \A j \in Min({k, lineCoord(p, horizontal)}) .. Max({k, lineCoord(p, horizontal)}) :
       lineCell(p, horizontal, j) \in DOMAIN boardTiles[c]}

\* the letters of that run, in the order of the coordinates
wordThrough(c, p, horizontal) ==
  LET run == runThrough(c, p, horizontal)
  IN [i \in 1 .. Cardinality(run) |->
        letterOf[boardTiles[c][lineCell(p, horizontal, Min(run) + i - 1)]]]

\* the sum of the tile values of the cells of a line at the coordinates ks
RECURSIVE valuesOn(_, _, _, _)
valuesOn(c, p, horizontal, ks) ==
  IF ks = {} THEN 0
  ELSE LET k == CHOOSE k \in ks : TRUE
       IN valueOf[boardTiles[c][lineCell(p, horizontal, k)]]
          + valuesOn(c, p, horizontal, ks \ {k})

\* the score of that run when p is the only staged cell: the other tiles at
\* face value, the tile on p with the letter multiplier of p, all times the
\* word multiplier of p
scoreThrough(c, p, horizontal) ==
  LET mult == multiplierAt(p[1], p[2])
      own == valueOf[boardTiles[c][p]]
      others == runThrough(c, p, horizontal) \ {lineCoord(p, horizontal)}
  IN (valuesOn(c, p, horizontal, others)
      + own * (IF mult = "DL" THEN 2 ELSE IF mult = "TL" THEN 3 ELSE 1))
     * (IF mult = "DW" THEN 2 ELSE IF mult = "TW" THEN 3 ELSE 1)

\* client c has exactly one staged tile and the validator accepts the move
singleAccepted(c) ==
  /\ Cardinality(stagedPositions[c]) = 1
  /\ stagedPositions[c] \subseteq DOMAIN boardTiles[c]
  /\ ~isError(computeMoveScore(c))

\* the one staged position
theStaged(c) == CHOOSE p \in stagedPositions[c] : TRUE

\* C28 as stated: for a move of one tile the word and score of the validator,
\* taken along the row, are those found along the column of the tile
C28_ColumnGivesTheSame ==
  \A c \in Clients : singleAccepted(c) =>
    /\ computeMoveScore(c).word = wordThrough(c, theStaged(c), FALSE)
    /\ computeMoveScore(c).score = scoreThrough(c, theStaged(c), FALSE)

\* C28: a move of one tile is read along the row of the tile: word and score
\* are those of the run of tiles through it in its row; they are also those of
\* its column when the tile has no neighbour in its row and none in its column
C28_SingleTileReadAlongRow ==
  \A c \in Clients : singleAccepted(c) =>
    LET p == theStaged(c)
        result == computeMoveScore(c)
    IN /\ result.word = wordThrough(c, p, TRUE)
       /\ result.score = scoreThrough(c, p, TRUE)
       /\ (runThrough(c, p, TRUE) = {p[2]} /\ runThrough(c, p, FALSE) = {p[1]})
            => /\ result.word = wordThrough(c, p, FALSE)
               /\ result.score = scoreThrough(c, p, FALSE)

\* one tile staged to the left of the centre tile: two letters along the row,
\* one along the column
C28_Witness ==
  /\ stagedPositions["c1"] = {<<7, 6>>}
  /\ singleAccepted("c1")
  /\ Len(computeMoveScore("c1").word) = 2
  /\ Len(wordThrough("c1", <<7, 6>>, FALSE)) = 1

-----------------------------------------------------------------------------
(* Properties of the assembler on locked and occupied cells, checked under SpecDesk *)

\* client c clicked a cell, dragged a tile or reset its move
editStep(c) ==
  \/ \E pos \in DuoCells : handleBoardCellClick(c, pos[1], pos[2])
  \/ \E source \in dragSources(c, DuoCells) : \E dropTarget \in dropTargets(DuoCells) :
       commitDrop(c, source, dropTarget)
  \/ \E order \in visitOrders(stagedPositions[c]) : handleResetMove(c, order)

\* client c clicked a locked cell, or dragged the tile of a locked cell to
\* another cell, to the rack or nowhere
lockedTileStep(c) ==
  \/ \E pos \in DuoCells \cap lockedPositions[c] : handleBoardCellClick(c, pos[1], pos[2])
  \/ \E source \in dragSources(c, DuoCells) : \E dropTarget \in dropTargets(DuoCells) :
       /\ source.type = "board" /\ <<source.row, source.col>> \in lockedPositions[c]
       /\ commitDrop(c, source, dropTarget)

\* C29: no click, drag or reset takes a locked tile off its cell of the local
\* board or unlocks the cell, and a click on a locked cell or a drag of its
\* tile leaves board, rack and staged set unchanged
C29_LockedTilesStay ==
  [][\A c \in Clients :
       /\ editStep(c) =>
            \A pos \in lockedPositions[c] :
              /\ pos \in lockedPositions'[c]
              /\ At(boardTiles'[c], pos[1], pos[2]) = At(boardTiles[c], pos[1], pos[2])
              /\ At(boardTiles[c], pos[1], pos[2]) # Null
              /\ pos \notin stagedPositions'[c]
       /\ lockedTileStep(c) => localMoveAfter(c) = localMove(c)]_vars

\* the client of "u2" holds the locked tile of the centre and a tile of its
\* own staged next to it
C29_Witness ==
  /\ lockedPositions["c2"] = {<<7, 7>>}
  /\ At(boardTiles["c2"], 7, 7) # Null
  /\ stagedPositions["c2"] = {<<7, 8>>}
  /\ At(boardTiles["c2"], 7, 8) \in Range(FirstRack(2))

\* client c put its selected tile on an occupied cell, or dropped a dragged
\* tile on an occupied cell
occupiedTargetStep(c) ==
  \/ \E pos \in DuoCells \cap DOMAIN boardTiles[c] :
       selectedTile(c) # Null /\ handleBoardCellClick(c, pos[1], pos[2])
  \/ \E source \in dragSources(c, DuoCells) : \E dropTarget \in dropTargets(DuoCells) :
       /\ dropTarget.type = "board"
       /\ <<dropTarget.row, dropTarget.col>> \in DOMAIN boardTiles[c]
       /\ commitDrop(c, source, dropTarget)

-----------------------------------------------------------------------------
(* Properties of reset and relocation, checked under SpecHand *)

\* client c pressed "Reset"
resetStep(c) == \E order \in visitOrders(stagedPositions[c]) : handleResetMove(c, order)

\* the tiles on the staged positions of client c
stagedTiles(c) == {At(boardTiles[c], pos[1], pos[2]) : pos \in stagedPositions[c]} \ {Null}

\* C31: a reset with staged tiles appends every staged tile to the rack, empties
\* exactly the staged cells of the board, leaves the locked cells and the locked
\* set as they were, empties the staged set and clears the selection; a reset
\* without staged tiles changes nothing
C31_ResetReturnsStaged ==
  [][\A c \in Clients :
       resetStep(c) =>
         IF stagedPositions[c] = {} THEN UNCHANGED progVars
         ELSE /\ stagedPositions'[c] = {}
              /\ selectedTileId'[c] = Null
              /\ DOMAIN boardTiles'[c] = DOMAIN boardTiles[c] \ stagedPositions[c]
              /\ \A pos \in DOMAIN boardTiles'[c] : boardTiles'[c][pos] = boardTiles[c][pos]
              /\ lockedPositions'[c] = lockedPositions[c]
              /\ \A pos \in lockedPositions[c] :
                   At(boardTiles'[c], pos[1], pos[2]) = At(boardTiles[c], pos[1], pos[2])
              /\ Cardinality(stagedTiles(c)) = Cardinality(stagedPositions[c])
              /\ Len(rack'[c]) = Len(rack[c]) + Cardinality(stagedPositions[c])
              /\ SubSeq(rack'[c], 1, Len(rack[c])) = rack[c]
              /\ Range(rack'[c]) = Range(rack[c]) \cup stagedTiles(c)]_vars

\* after a commit on the centre "u1" staged a tile and took it back: the board
\* holds the locked tile alone, nothing is staged or selected, and the tile is
\* the last of the rack
C31_Witness ==
  /\ lockedPositions["c1"] = {<<7, 7>>}
  /\ DOMAIN boardTiles["c1"] = {<<7, 7>>}
  /\ stagedPositions["c1"] = {}
  /\ selectedTileId["c1"] = Null
  /\ Len(rack["c1"]) = RACK_SIZE
  /\ rack["c1"] # store.racks["u1"]
  /\ Range(rack["c1"]) = Range(store.racks["u1"])
  /\ rack["c1"][RACK_SIZE] \in HandPicks

\* client c dragged the tile of a staged cell onto an empty cell
relocated(c, source, dropTarget) ==
  /\ source.type = "board" /\ dropTarget.type = "board"
  /\ <<source.row, source.col>> \in stagedPositions[c]
  /\ <<dropTarget.row, dropTarget.col>> \notin DOMAIN boardTiles[c]
  /\ commitDrop(c, source, dropTarget)

\* C32: a drag of a staged tile onto an empty cell leaves the source cell empty
\* and not staged, the target cell holding the tile and staged, every other
\* cell and staged position as it was, and the rack and the locked set unchanged
C32_RelocationMovesTileAndStaging ==
  [][\A c \in Clients :
       \A source \in dragSources(c, HandCells) : \A dropTarget \in dropTargets(HandCells) :
         relocated(c, source, dropTarget) =>
           LET from == <<source.row, source.col>>
               to == <<dropTarget.row, dropTarget.col>>
           IN /\ At(boardTiles'[c], from[1], from[2]) = Null
              /\ from \notin stagedPositions'[c]
              /\ At(boardTiles'[c], to[1], to[2]) = At(boardTiles[c], from[1], from[2])
              /\ At(boardTiles'[c], to[1], to[2]) # Null
              /\ to \in stagedPositions'[c]
              /\ stagedPositions'[c] \ {to} = stagedPositions[c] \ {from}
              /\ DOMAIN boardTiles'[c] \ {to} = DOMAIN boardTiles[c] \ {from}
              /\ \A pos \in DOMAIN boardTiles[c] \ {from} : boardTiles'[c][pos] = boardTiles[c][pos]
              /\ rack'[c] = rack[c]
              /\ lockedPositions'[c] = lockedPositions[c]]_vars

\* "u1" holds a locked tile on the centre and a staged tile below it, with the
\* cell to the right of the centre empty: the staged tile can be dragged there
C32_Witness ==
  /\ lockedPositions["c1"] = {<<7, 7>>}
  /\ stagedPositions["c1"] = {<<8, 7>>}
  /\ At(boardTiles["c1"], 8, 7) \in HandPicks
  /\ At(boardTiles["c1"], 7, 8) = Null
  /\ Len(rack["c1"]) = RACK_SIZE - 1

-----------------------------------------------------------------------------
(* Properties of hydration, checked under SpecDesk and SpecBoard *)

\* client c received a snapshot and its hydration effect ran
hydrated(c) == game'[c] # game[c] /\ game'[c] # NoGame

\* C33: when a snapshot is hydrated into a client, the local board is the
\* snapshot's board, the locked set is exactly the set of its occupied cells,
\* the staged set is empty, and bag and rack are the snapshot's bag and the
\* rack it holds for the client's user
C33_HydrationReplacesLocalState ==
  [][\A c \in Clients :
       hydrated(c) =>
         LET snapshot == game'[c]
         IN /\ boardToMap(boardTiles'[c]) = snapshot.boardTiles
            /\ lockedPositions'[c] = DOMAIN boardTiles'[c]
            /\ \A pos \in Idx \X Idx :
                 pos \in lockedPositions'[c] <=> keyFor(pos[1], pos[2]) \in DOMAIN snapshot.boardTiles
            /\ stagedPositions'[c] = {}
            /\ bag'[c] = snapshot.bag
            /\ user[c] \in DOMAIN snapshot.racks => rack'[c] = snapshot.racks[user[c]]]_vars

\* the client of "u2" has a tile staged while the store holds a newer game with
\* a tile on the board: the next snapshot discards the staging
C33_Witness ==
  /\ game["c2"] # NoGame
  /\ stagedPositions["c2"] # {}
  /\ store # game["c2"]
  /\ DOMAIN store.boardTiles # {}
  /\ "u2" \in DOMAIN store.racks

\* the cell the digits of a matching key name
cellOf(key) == <<Number(key[2]), Number(key[4])>>

-----------------------------------------------------------------------------
(* Properties of the game id generation, checked under SpecIds *)

\* the loop made one more existence check in this step
checkedOne == idLoop.pc = "loop" /\ Len(idLoop'.tried) = Len(idLoop.tried) + 1

\* the games "u1" has written
writtenBy(uid) == {id \in DOMAIN games : games[id] = uid}

\* C35: generateUniqueGameId makes at most 5 existence checks; a check that
\* finds no game under the candidate returns that candidate at once, a check
\* that finds one goes on, and the fifth such check throws; a started loop
\* ends, returned or thrown, and a call that threw writes no game
C35_IdGenerationBounded ==
  /\ [](idLoop # NotCalled =>
          /\ Len(idLoop.tried) <= 5
          /\ idLoop.pc = "thrown" =>
               /\ Len(idLoop.tried) = 5
               /\ store = NoGame /\ writtenBy("u1") = {}
          /\ idLoop.pc \in {"loop", "returned"} => store = NoGame /\ writtenBy("u1") = {}
          /\ idLoop.pc = "written" =>
               /\ store # NoGame
               /\ writtenBy("u1") = {idLoop.candidate}
               /\ idLoop.candidate = idLoop.tried[Len(idLoop.tried)])
  /\ [][checkedOne =>
          LET candidate == idLoop'.tried[Len(idLoop'.tried)]
          IN IF candidate \in DOMAIN games
             THEN idLoop'.pc = (IF Len(idLoop'.tried) = 5 THEN "thrown" ELSE "loop")
             ELSE idLoop'.pc = "returned" /\ idLoop'.candidate = candidate]_vars
  /\ [][idLoop.pc = "thrown" => idLoop' = idLoop /\ store' = store]_vars
  /\ idLoop.pc = "loop" ~> idLoop.pc \in {"returned", "written", "thrown"}

\* five candidates were taken and the call threw without a game of "u1"
C35_Witness ==
  /\ idLoop.pc = "thrown"
  /\ Len(idLoop.tried) = 5
  /\ Range(idLoop.tried) = CandidateIds
  /\ store = NoGame

-----------------------------------------------------------------------------
(* Conservation of the tiles, checked under Spec *)

\* how often tile t occurs in sequence s
occurrences(s, t) == Cardinality({i \in DOMAIN s : s[i] = t})

\* how often tile t occurs in the bag, the racks and the board of game g
copiesIn(g, t) ==
  LET inRack(uid) == occurrences(g.racks[uid], t)
      u1 == IF "u1" \in DOMAIN g.racks THEN inRack("u1") ELSE 0
      u2 == IF "u2" \in DOMAIN g.racks THEN inRack("u2") ELSE 0
      u3 == IF "u3" \in DOMAIN g.racks THEN inRack("u3") ELSE 0
  IN occurrences(g.bag, t) + u1 + u2 + u3
     + Cardinality({key \in DOMAIN g.boardTiles : g.boardTiles[key] = t})

\* C36: in every persisted game every tile of the original bag occurs exactly
\* once across the bag, the racks and the board
C36_TileConservation ==
  store # NoGame => \A t \in TileIds : copiesIn(store, t) = 1

-----------------------------------------------------------------------------
(* Invariants of the client state, checked under SpecDesk *)

\* C37: in every client the locked and the staged positions are disjoint and
\* together they are exactly the occupied cells of the local board
C37_LockedAndStagedPartitionBoard ==
  \A c \in Clients :
    /\ lockedPositions[c] \cap stagedPositions[c] = {}
    /\ stagedPositions[c] \subseteq DOMAIN boardTiles[c]
    /\ lockedPositions[c] \cup stagedPositions[c] = DOMAIN boardTiles[c]

\* this step persisted a new commit or pass record
moveRecorded ==
  /\ store' # store
  /\ Has(store', "lastMove")
  /\ store'.lastMove.at = now
  /\ store'.lastMove.word # WordUNDO

\* C38: every commit or pass that is written comes from a client whose user is
\* the activePlayerUid of the snapshot that client holds, and a commit or pass
\* request in a client whose user is not changes nothing
C38_OnlyActivePlayerMoves ==
  [][/\ moveRecorded =>
          \E c \in Clients : /\ user[c] = store'.lastMove.byUid
                             /\ game[c] # NoGame
                             /\ game[c].activePlayerUid = user[c]
                             /\ store'.lastMove.prevActivePlayerUid = user[c]
     /\ \A c \in Clients :
          (game[c] # NoGame /\ game[c].activePlayerUid # user[c]
             /\ (handleCommitMove(c, now + 1) \/ handlePassTurn(c, now + 1)))
          => UNCHANGED <<store, clientVars>>]_vars

\* the client of "u2" has a tile staged while its snapshot gives the turn to "u1"
C38_Witness ==
  /\ game["c2"] # NoGame
  /\ game["c2"].player2Uid = "u2"
  /\ game["c2"].activePlayerUid = "u1"
  /\ stagedPositions["c2"] # {}
  /\ Has(store, "lastMove") /\ store.lastMove.word # WordUNDO

====
